---- MODULE Spec2Model ----
(***************************************************************************)
(* Verification model of the subscription converter (guancn/clashsubsys).  *)
(*                                                                         *)
(* Text is modelled as a sequence of tokens (a token is an atomic piece of *)
(* text: a character, a separator or a word), so that the splitting,       *)
(* searching and joining the Python code performs is computed, not assumed. *)
(* Each component has its own specification (SpecFilter, SpecRules, ...):  *)
(* Init draws the inputs of the call from bounded sets and the actions     *)
(* apply the modelled function or handler.                                 *)
(***************************************************************************)
EXTENDS Integers, Sequences, FiniteSets, TLC

VARIABLES
    args,       \* arguments of the call under study (a record)
    result,     \* value returned by the call
    pc,         \* "call" before the call, "done" after it, "idle" when unused
    parsers,    \* ProtocolParserRegistry._parsers : scheme -> parser instance
    regLog,     \* history: parser instances in the order they were registered
    lookup,     \* last get_parser call: [url, parser]
    genNode,    \* VlessRealityConfigGenerator.node (attribute set by generate_proxy_config)
    genLog,     \* history: last call made on the Reality generator and its answer
    store,      \* state of the object under study (a cache, a circuit breaker, a batch queue, ...)
    log,        \* history: the steps taken so far, in order
    clock       \* the time, in ticks

pureVars     == <<args, result, pc>>
registryVars == <<parsers, regLog, lookup>>
realityVars  == <<genNode, genLog>>
objectVars   == <<store, log, clock>>
vars         == <<args, result, pc, parsers, regLog, lookup, genNode, genLog, store, log, clock>>

----------------------------------------------------------------------------
(* Generic helpers                                                          *)

Last(s) == s[Len(s)]

RECURSIVE SeqsUpTo(_, _)
\* all sequences over S of length 0..n
SeqsUpTo(S, n) ==
    IF n = 0 THEN { <<>> }
    ELSE LET shorter == SeqsUpTo(S, n - 1)
         IN  shorter \cup { Append(s, x) : s \in { t \in shorter : Len(t) = n - 1 }, x \in S }

RECURSIVE IndexOfFrom(_, _, _)
\* least index i >= from with s[i] = x, 0 when there is none  (str.find)
IndexOfFrom(s, x, from) ==
    IF from > Len(s) THEN 0
    ELSE IF s[from] = x THEN from
    ELSE IndexOfFrom(s, x, from + 1)

IndexOf(s, x) == IndexOfFrom(s, x, 1)

Contains(s, x) == IndexOf(s, x) # 0

RECURSIVE LastIndexOf(_, _, _)
\* greatest index i <= from with s[i] = x, 0 when there is none  (str.rfind)
LastIndexOf(s, x, from) ==
    IF from = 0 THEN 0
    ELSE IF s[from] = x THEN from
    ELSE LastIndexOf(s, x, from - 1)

RECURSIVE SplitAll(_, _)
\* str.split(sep): the pieces between the occurrences of the token sep
SplitAll(s, sep) ==
    LET i == IndexOf(s, sep)
    IN  IF i = 0 THEN << s >>
        ELSE << SubSeq(s, 1, i - 1) >> \o SplitAll(SubSeq(s, i + 1, Len(s)), sep)

\* str.split(sep, 1): at most two pieces, split at the first sep
SplitOnce(s, sep) ==
    LET i == IndexOf(s, sep)
    IN  IF i = 0 THEN << s >>
        ELSE << SubSeq(s, 1, i - 1), SubSeq(s, i + 1, Len(s)) >>

\* the idle values of the state of the stateful components
\* the value get_parser returns when no parser is bound
NoParser == [ cls |-> "None", id |-> 0 ]

RegistryIdle == parsers = << >> /\ regLog = << >> /\ lookup = [ url |-> << >>, parser |-> NoParser, at |-> 0 ]
RealityIdle  == genNode = [set |-> FALSE] /\ genLog = [op |-> "none"]
PureIdle     == args = << >> /\ result = << >> /\ pc = "idle"
ObjectIdle   == store = << >> /\ log = << >> /\ clock = 0

----------------------------------------------------------------------------
(* Regular expressions (Python re, flags=re.IGNORECASE, method search)      *)
(* A pattern is None, or the source text of a pattern, modelled by its      *)
(* shape: a literal, an alternation of two literals, a literal anchored at  *)
(* the start, or a text re.compile rejects.                                 *)

MaxNameLen == 2
MaxNodes   == 2

Chars == { "a", "A", "b" }

Lower(c) ==
    CASE c = "A" -> "a" [] c = "HK" -> "hk" [] c = "US" -> "us"
      [] c = "WG" -> "wg" [] c = "Tuic5" -> "tuic5" [] c = "VMESS" -> "vmess"
      [] c = "VLESS" -> "vless" [] c = "TUIC" -> "tuic" [] OTHER -> c

LowerSeq(s) == [ i \in 1..Len(s) |-> Lower(s[i]) ]

NoPattern      == [ kind |-> "none" ]
Lit(s)         == [ kind |-> "lit", s |-> s ]
Alt(s, t)      == [ kind |-> "alt", s |-> s, t |-> t ]
Anchored(s)    == [ kind |-> "start", s |-> s ]
InvalidPattern == [ kind |-> "invalid" ]

\* Python truthiness of Optional[str]: None and "" are falsy
Truthy(p) == p.kind # "none" /\ ~(p.kind = "lit" /\ p.s = << >>)

\* re.compile(p) succeeds
CompileOk(p) == p.kind \in { "lit", "alt", "start" }

\* s occurs in name at position i (0-based), ignoring case
OccursAt(s, name, i) ==
    /\ i + Len(s) <= Len(name)
    /\ LowerSeq(SubSeq(name, i + 1, i + Len(s))) = LowerSeq(s)

Occurs(s, name) == \E i \in 0..Len(name) : OccursAt(s, name, i)

\* re.compile(p, re.IGNORECASE).search(name) finds a match
Search(p, name) ==
    CASE p.kind = "lit"   -> Occurs(p.s, name)
      [] p.kind = "alt"   -> Occurs(p.s, name) \/ Occurs(p.t, name)
      [] p.kind = "start" -> OccursAt(p.s, name, 0)
      [] OTHER            -> FALSE

Names == SeqsUpTo(Chars, MaxNameLen) \ { << >> }

NodeLists == SeqsUpTo(Names, MaxNodes)

Patterns ==
    { NoPattern, Lit(<< >>), Lit(<<"a">>), Lit(<<"b">>), Lit(<<"A", "b">>),
      Alt(<<"b">>, <<"A", "A">>), Anchored(<<"b">>), InvalidPattern }

\* SelectSeq with the test given as a set of accepted elements
RECURSIVE Keep(_, _)
Keep(s, ok) ==
    IF s = << >> THEN << >>
    ELSE (IF s[1] \in ok THEN << s[1] >> ELSE << >>) \o Keep(Tail(s), ok)

Elems(s) == { s[i] : i \in 1..Len(s) }

\* mutant: the exclude pass keeps the matching names instead of dropping them
apply_node_filters_keeps_excluded(nodes, include_pattern, exclude_pattern) ==
    IF Truthy(include_pattern) /\ ~CompileOk(include_pattern) THEN nodes
    ELSE LET included == IF Truthy(include_pattern)
                         THEN Keep(nodes, { n \in Elems(nodes) : Search(include_pattern, n) })
                         ELSE nodes
         IN  IF Truthy(exclude_pattern) /\ ~CompileOk(exclude_pattern) THEN nodes
             ELSE IF Truthy(exclude_pattern)
                  THEN Keep(included, { n \in Elems(included) : Search(exclude_pattern, n) })
                  ELSE included

\* RuleProcessor.apply_node_filters: the include pass, then the exclude pass;
\* a pattern that does not compile raises inside the try block and the
\* original list is returned.
apply_node_filters(nodes, include_pattern, exclude_pattern) ==
    IF Truthy(include_pattern) /\ ~CompileOk(include_pattern) THEN nodes
    ELSE LET included == IF Truthy(include_pattern)
                         THEN Keep(nodes, { n \in Elems(nodes) : Search(include_pattern, n) })
                         ELSE nodes
         IN  IF Truthy(exclude_pattern) /\ ~CompileOk(exclude_pattern) THEN nodes
             ELSE IF Truthy(exclude_pattern)
                  THEN Keep(included, { n \in Elems(included) : ~Search(exclude_pattern, n) })
                  ELSE included

FilterArgs ==
    [ nodes : NodeLists, include : Patterns, exclude : Patterns ]

InitFilter ==
    /\ args \in FilterArgs
    /\ result = << >>
    /\ pc = "call"
    /\ RegistryIdle
    /\ RealityIdle
    /\ ObjectIdle

ApplyNodeFilters ==
    /\ pc = "call"
    /\ result' = apply_node_filters(args.nodes, args.include, args.exclude)
    /\ pc' = "done"
    /\ UNCHANGED <<args, registryVars, realityVars, objectVars>>

NextFilter == ApplyNodeFilters

SpecFilter == InitFilter /\ [][NextFilter]_vars

\* both patterns are regular expressions (or absent), none is rejected by re.compile
IsRegexPair(a) == a.include.kind # "invalid" /\ a.exclude.kind # "invalid"

\* the set-builder expression of the claim, with "absent" given as a parameter
FilterExpected(a, absent) ==
    Keep(a.nodes, { n \in Elems(a.nodes) :
                      /\ (a.include \in absent \/ Search(a.include, n))
                      /\ ~(a.exclude \notin absent /\ Search(a.exclude, n)) })

\* C1 (as stated): for every regular-expression pair the result is the names n
\* with (include is None or include matches n) and not (exclude is given and
\* exclude matches n), in their original order.
C1_Original ==
    (pc = "done" /\ IsRegexPair(args))
        => result = FilterExpected(args, { NoPattern })

\* C1 (amended): the same, where a pattern that is None or the empty string
\* counts as absent.
C1_FilterResult ==
    (pc = "done" /\ IsRegexPair(args))
        => result = FilterExpected(args, { NoPattern, Lit(<< >>) })

\* a call with both patterns given that drops one name for each reason and keeps another
C1_Witness ==
    /\ pc = "done"
    /\ Truthy(args.include) /\ Truthy(args.exclude) /\ IsRegexPair(args)
    /\ Len(args.nodes) = 2
    /\ Len(result) = 1
    /\ \E i \in 1..2 : Search(args.include, args.nodes[i]) /\ Search(args.exclude, args.nodes[i])

----------------------------------------------------------------------------
(* Rule synthesis: RuleProcessor.generate_rules                             *)
(* Group names of the source are written in ASCII here:                     *)
(*   NODE_SELECT (节点选择), AUTO_SELECT (自动选择), FALLBACK (故障转移),   *)
(*   LOAD_BALANCE (负载均衡), FINAL_FISH (漏网之鱼), TELEGRAM (电报消息),   *)
(*   GLOBAL_DIRECT (全球直连), AD_BLOCK (广告拦截), APP_PURIFY (应用净化).  *)

MaxRulesets    == 2
MaxCustomRules == 2

\* Optional[List]: None or a list
NoneList    == [ none |-> TRUE ]
SomeList(l) == [ none |-> FALSE, list |-> l ]
\* `if xs:` is false for None and for the empty list
TruthyList(o) == ~o.none /\ o.list # << >>

\* RuleProcessor.default_rules
default_rules ==
    << <<"DOMAIN", ",", "clash.razord.top", ",", "DIRECT">>,
       <<"DOMAIN", ",", "yacd.haishan.me", ",", "DIRECT">>,
       <<"IP-CIDR", ",", "192.168.0.0/16", ",", "DIRECT">>,
       <<"IP-CIDR", ",", "10.0.0.0/8", ",", "DIRECT">>,
       <<"IP-CIDR", ",", "172.16.0.0/12", ",", "DIRECT">>,
       <<"IP-CIDR", ",", "127.0.0.0/8", ",", "DIRECT">>,
       <<"IP-CIDR", ",", "100.64.0.0/10", ",", "DIRECT">>,
       <<"IP-CIDR", ",", "224.0.0.0/4", ",", "DIRECT">>,
       <<"IP-CIDR6", ",", "fe80::/10", ",", "DIRECT">>,
       <<"DOMAIN-SUFFIX", ",", "apple.com", ",", "GLOBAL_DIRECT">>,
       <<"DOMAIN-SUFFIX", ",", "icloud.com", ",", "GLOBAL_DIRECT">>,
       <<"DOMAIN-SUFFIX", ",", "apple-cloudkit.com", ",", "GLOBAL_DIRECT">>,
       <<"DOMAIN-SUFFIX", ",", "crashlytics.com", ",", "GLOBAL_DIRECT">>,
       <<"DOMAIN-SUFFIX", ",", "qq.com", ",", "GLOBAL_DIRECT">>,
       <<"DOMAIN-SUFFIX", ",", "taobao.com", ",", "GLOBAL_DIRECT">>,
       <<"DOMAIN-SUFFIX", ",", "tmall.com", ",", "GLOBAL_DIRECT">>,
       <<"DOMAIN-SUFFIX", ",", "alipay.com", ",", "GLOBAL_DIRECT">>,
       <<"DOMAIN-SUFFIX", ",", "baidu.com", ",", "GLOBAL_DIRECT">>,
       <<"DOMAIN-SUFFIX", ",", "163.com", ",", "GLOBAL_DIRECT">>,
       <<"DOMAIN-SUFFIX", ",", "126.com", ",", "GLOBAL_DIRECT">>,
       <<"DOMAIN-SUFFIX", ",", "weibo.com", ",", "GLOBAL_DIRECT">>,
       <<"DOMAIN-SUFFIX", ",", "sina.com.cn", ",", "GLOBAL_DIRECT">>,
       <<"DOMAIN-SUFFIX", ",", "douban.com", ",", "GLOBAL_DIRECT">>,
       <<"DOMAIN-SUFFIX", ",", "zhihu.com", ",", "GLOBAL_DIRECT">>,
       <<"DOMAIN-SUFFIX", ",", "bilibili.com", ",", "GLOBAL_DIRECT">>,
       <<"DOMAIN-SUFFIX", ",", "t.me", ",", "TELEGRAM">>,
       <<"DOMAIN-SUFFIX", ",", "tdesktop.com", ",", "TELEGRAM">>,
       <<"DOMAIN-SUFFIX", ",", "telegra.ph", ",", "TELEGRAM">>,
       <<"DOMAIN-SUFFIX", ",", "telegram.org", ",", "TELEGRAM">>,
       <<"IP-CIDR", ",", "91.108.4.0/22", ",", "TELEGRAM">>,
       <<"IP-CIDR", ",", "91.108.8.0/22", ",", "TELEGRAM">>,
       <<"IP-CIDR", ",", "91.108.12.0/22", ",", "TELEGRAM">>,
       <<"IP-CIDR", ",", "91.108.16.0/22", ",", "TELEGRAM">>,
       <<"IP-CIDR", ",", "91.108.56.0/22", ",", "TELEGRAM">>,
       <<"IP-CIDR", ",", "149.154.160.0/20", ",", "TELEGRAM">>,
       <<"DOMAIN-SUFFIX", ",", "google.com", ",", "NODE_SELECT">>,
       <<"DOMAIN-SUFFIX", ",", "youtube.com", ",", "NODE_SELECT">>,
       <<"DOMAIN-SUFFIX", ",", "facebook.com", ",", "NODE_SELECT">>,
       <<"DOMAIN-SUFFIX", ",", "twitter.com", ",", "NODE_SELECT">>,
       <<"DOMAIN-SUFFIX", ",", "instagram.com", ",", "NODE_SELECT">>,
       <<"DOMAIN-SUFFIX", ",", "github.com", ",", "NODE_SELECT">>,
       <<"DOMAIN-SUFFIX", ",", "netflix.com", ",", "NODE_SELECT">>,
       <<"DOMAIN-SUFFIX", ",", "openai.com", ",", "NODE_SELECT">>,
       <<"DOMAIN-SUFFIX", ",", "chatgpt.com", ",", "NODE_SELECT">>,
       <<"GEOIP", ",", "LAN", ",", "DIRECT">>,
       <<"GEOIP", ",", "CN", ",", "GLOBAL_DIRECT">>,
       <<"MATCH", ",", "FINAL_FISH">> >>

RECURSIVE Strip(_)
\* str.strip(): drop the blank tokens at both ends
Strip(s) ==
    IF s = << >> THEN s
    ELSE IF s[1] = " " THEN Strip(Tail(s))
    ELSE IF s[Len(s)] = " " THEN Strip(SubSeq(s, 1, Len(s) - 1))
    ELSE s

\* str.replace(tok, ''): drop every occurrence of the token
Without(s, tok) == Keep(s, Elems(s) \ { tok })

\* url.startswith('http'), the scheme being the first token of the text
StartsWithHttp(url) == url # << >> /\ url[1] \in { "http", "https" }

\* the value _parse_custom_ruleset returns
NoRuleset == [ kind |-> "None" ]

\* RuleProcessor._parse_custom_ruleset: "policy,url" or "policy,[]FINAL"
parse_custom_ruleset(ruleset_config) ==
    LET parts == SplitOnce(ruleset_config, ",")
    IN  IF Len(parts) # 2 THEN NoRuleset
        ELSE LET policy == Strip(parts[1])
                 url    == Strip(parts[2])
             IN  IF url = << "[]FINAL" >>
                 THEN [ kind |-> "MATCH", policy |-> policy, name |-> << "FINAL" >> ]
                 ELSE IF StartsWithHttp(url)
                 THEN [ kind   |-> "RULE-SET",
                        policy |-> policy,
                        url    |-> url,
                        name   |-> Without(Without(Without(Last(SplitAll(url, "/")),
                                                           ".list"), ".txt"), ".yaml") ]
                 ELSE NoRuleset

\* "domain" if "domain" in name.lower() else "ipcidr" if "ip" in name.lower() else "classical"
ProviderBehavior(rule_name) ==
    IF Contains(rule_name, "domain") THEN "domain"
    ELSE IF Contains(rule_name, "ip") THEN "ipcidr"
    ELSE "classical"

ProviderEntry(p) ==
    [ type     |-> "http",
      behavior |-> ProviderBehavior(p.name),
      url      |-> p.url,
      path     |-> << "./" >> \o p.name \o << ".yaml" >>,
      interval |-> 86400 ]

\* the loop of generate_rules over custom_rulesets, acc = [rules, providers]
RECURSIVE RulesetLoop(_, _)
RulesetLoop(configs, acc) ==
    IF configs = << >> THEN acc
    ELSE LET p == parse_custom_ruleset(configs[1])
             next ==
                 IF p.kind = "MATCH"
                 THEN [ acc EXCEPT !.rules = Append(@, << "MATCH", "," >> \o p.policy) ]
                 ELSE IF p.kind = "RULE-SET" /\ p.url # << >>
                 THEN [ rules     |-> Append(acc.rules,
                                             << "RULE-SET", "," >> \o p.name \o << "," >> \o p.policy),
                        providers |-> (p.name :> ProviderEntry(p)) @@ acc.providers ]
                 ELSE acc
         IN  RulesetLoop(Tail(configs), next)

\* RuleProcessor.generate_rules: returns the pair (rules, rule_providers)
generate_rules(custom_rulesets, custom_rules) ==
    LET sets == IF TruthyList(custom_rulesets)
                THEN RulesetLoop(custom_rulesets.list, [ rules |-> << >>, providers |-> << >> ])
                ELSE [ rules |-> << >>, providers |-> << >> ]
        all  == IF TruthyList(custom_rules) THEN sets.rules \o custom_rules.list ELSE sets.rules
    IN  [ rules     |-> IF all = << >> THEN default_rules ELSE all,
          providers |-> sets.providers ]

RulesetConfigs ==
    { << "P", ",", "[]FINAL" >>,
      << "P", ",", " ", "http", ":", "/", "/", "x", "/", "a", ".list" >>,
      << "Q", ",", "https", ":", "/", "/", "y", "/", "a", ".txt" >>,
      << "Q", ",", "http", ":", "/", "/", "x", "/", "ip", ".yaml" >>,
      << "P", ",", "clash-classic", ":", "/", "/", "x", "/", "b", ".list" >>,
      << "P" >> }

LiteralRules ==
    { << "DOMAIN", ",", "a.com", ",", "DIRECT" >>,
      << "MATCH", ",", "P" >> }

OptionalLists(S, n) == { NoneList } \cup { SomeList(l) : l \in SeqsUpTo(S, n) }

RulesArgs ==
    [ custom_rulesets : OptionalLists(RulesetConfigs, MaxRulesets),
      custom_rules    : OptionalLists(LiteralRules, MaxCustomRules) ]

InitRules ==
    /\ args \in RulesArgs
    /\ result = << >>
    /\ pc = "call"
    /\ RegistryIdle
    /\ RealityIdle
    /\ ObjectIdle

GenerateRules ==
    /\ pc = "call"
    /\ result' = generate_rules(args.custom_rulesets, args.custom_rules)
    /\ pc' = "done"
    /\ UNCHANGED <<args, registryVars, realityVars, objectVars>>

NextRules == GenerateRules

SpecRules == InitRules /\ [][NextRules]_vars

IsMatchRule(r) == r # << >> /\ r[1] = "MATCH"

IsFinalSentinel(config) == parse_custom_ruleset(config).kind = "MATCH"

\* the caller authored the terminal rule last: a FINAL sentinel only as the
\* last rule-set, a literal MATCH rule only as the last literal rule
TerminalAuthoredLast(a) ==
    /\ ~a.custom_rulesets.none =>
           \A i \in 1..Len(a.custom_rulesets.list) :
               IsFinalSentinel(a.custom_rulesets.list[i]) => i = Len(a.custom_rulesets.list)
    /\ ~a.custom_rules.none =>
           \A i \in 1..Len(a.custom_rules.list) :
               IsMatchRule(a.custom_rules.list[i]) => i = Len(a.custom_rules.list)

\* C2: in every rule list returned by generate_rules no rule follows a MATCH
\* rule (the terminal MATCH rule is the last element); stated for the calls
\* whose own rule-sets and literal rules put their terminal rule last.
C2_MatchIsLast ==
    (pc = "done" /\ TerminalAuthoredLast(args)) =>
        \A i \in 1..Len(result.rules) : IsMatchRule(result.rules[i]) => i = Len(result.rules)

\* a rule-set specification for which the loop of generate_rules appends a rule
YieldsRule(config) ==
    LET p == parse_custom_ruleset(config)
    IN  p.kind = "MATCH" \/ (p.kind = "RULE-SET" /\ p.url # << >>)

\* the rule-set specifications of a call that produced a rule, in the order of
\* the rules they produced (the first rules of the returned list)
ProducingRulesets(a) ==
    IF TruthyList(a.custom_rulesets) THEN SelectSeq(a.custom_rulesets.list, YieldsRule)
    ELSE << >>

IsRuleSetRuleFor(r, name) ==
    /\ Len(r) >= 2 + Len(name)
    /\ SubSeq(r, 1, 2 + Len(name)) = << "RULE-SET", "," >> \o name

\* C29: in every pair returned by generate_rules each RULE-SET rule names an
\* entry of the provider table whose url is the URL of the rule-set
\* specification that produced the rule, and every entry of the provider
\* table is referenced by some RULE-SET rule of the list.
C29_RulesAgreeWithProviders ==
    pc = "done" =>
        LET made == ProducingRulesets(args)
        IN  /\ \A i \in 1..Len(made) :
                   LET p == parse_custom_ruleset(made[i])
                   IN  p.kind = "RULE-SET" =>
                           /\ IsRuleSetRuleFor(result.rules[i], p.name)
                           /\ p.name \in DOMAIN result.providers
                           /\ result.providers[p.name].url = p.url
            /\ \A name \in DOMAIN result.providers :
                   \E i \in 1..Len(result.rules) : IsRuleSetRuleFor(result.rules[i], name)

----------------------------------------------------------------------------
(* Proxy-group synthesis: RuleProcessor.generate_proxy_groups and           *)
(* RuleProcessor._parse_custom_group                                        *)

MaxCustomGroups == 2

\* the field separator of a group specification (the grave accent)
BQ == "bq"

TestUrl == << "http://www.gstatic.com/generate_204" >>

\* RuleProcessor.default_groups (set in __init__)
default_groups ==
    << [ name |-> << "NODE_SELECT" >>, type |-> << "select" >>,
         proxies |-> << << "AUTO_SELECT" >>, << "FALLBACK" >>, << "LOAD_BALANCE" >>, << "DIRECT" >> >> ],
       [ name |-> << "AUTO_SELECT" >>, type |-> << "url-test" >>, url |-> TestUrl,
         interval |-> 300, tolerance |-> 50, proxies |-> << >> ],
       [ name |-> << "FALLBACK" >>, type |-> << "fallback" >>, url |-> TestUrl,
         interval |-> 300, proxies |-> << >> ],
       [ name |-> << "LOAD_BALANCE" >>, type |-> << "load-balance" >>,
         strategy |-> "consistent-hashing", url |-> TestUrl, interval |-> 300, proxies |-> << >> ],
       [ name |-> << "FINAL_FISH" >>, type |-> << "select" >>,
         proxies |-> << << "NODE_SELECT" >>, << "DIRECT" >>, << "REJECT" >> >> ],
       [ name |-> << "TELEGRAM" >>, type |-> << "select" >>,
         proxies |-> << << "NODE_SELECT" >>, << "AUTO_SELECT" >>, << "DIRECT" >> >> ],
       [ name |-> << "GLOBAL_DIRECT" >>, type |-> << "select" >>,
         proxies |-> << << "DIRECT" >>, << "NODE_SELECT" >> >> ],
       [ name |-> << "AD_BLOCK" >>, type |-> << "select" >>,
         proxies |-> << << "REJECT" >>, << "DIRECT" >> >> ],
       [ name |-> << "APP_PURIFY" >>, type |-> << "select" >>,
         proxies |-> << << "REJECT" >>, << "DIRECT" >> >> ] >>

TestTypes == { << "url-test" >>, << "fallback" >>, << "load-balance" >> }

\* the number tokens of the inputs and their int() values
DigitTokens == { "50", "300", "600", "51820" }
IsDigit(s) == Len(s) = 1 /\ s[1] \in DigitTokens
ToInt(s) ==
    CASE s[1] = "50" -> 50 [] s[1] = "300" -> 300 [] s[1] = "600" -> 600 [] s[1] = "51820" -> 51820

\* the pattern re.compile builds from the text of a regular expression:
\* an unbalanced "(" is rejected, "^" anchors, "|" separates two
\* alternatives, a leading or trailing ".*" does not change what search finds
ParsePattern(text) ==
    IF Contains(text, "(") THEN InvalidPattern
    ELSE IF text # << >> /\ text[1] = "^" THEN Anchored(Without(Tail(text), ".*"))
    ELSE IF Contains(text, "|")
         THEN Alt(Without(SplitOnce(text, "|")[1], ".*"), Without(SplitOnce(text, "|")[2], ".*"))
    ELSE Lit(Without(text, ".*"))

RECURSIVE FindBracketItems(_)
\* re.findall(r'\[(.*?)\]', text): the text between each "[" and the nearest
\* "]" after it, scanning from the left
FindBracketItems(text) ==
    LET i == IndexOf(text, "[")
        j == IF i = 0 THEN 0 ELSE IndexOfFrom(text, "]", i + 1)
    IN  IF i = 0 \/ j = 0 THEN << >>
        ELSE << SubSeq(text, i + 1, j - 1) >> \o FindBracketItems(SubSeq(text, j + 1, Len(text)))

\* the last part of reversed(interval_parts) that is a number, 50 when none is
RECURSIVE LastNumber(_, _)
LastNumber(interval_parts, k) ==
    IF k = 0 THEN 50
    ELSE IF Strip(interval_parts[k]) # << >> /\ IsDigit(Strip(interval_parts[k]))
         THEN ToInt(Strip(interval_parts[k]))
         ELSE LastNumber(interval_parts, k - 1)

\* what one item of the bracketed list contributes to proxies
ItemMembers(item, nodes) ==
    IF item = << "DIRECT" >> \/ item = << "REJECT" >> THEN << item >>
    ELSE IF Len(item) >= 2 /\ item[1] = "[" /\ item[2] = "]" THEN << SubSeq(item, 3, Len(item)) >>
    ELSE IF Contains(item, ".*") \/ (item # << >> /\ item[1] = "^") \/ (item # << >> /\ Last(item) = "$")
         THEN IF CompileOk(ParsePattern(item))
              THEN Keep(nodes, { n \in Elems(nodes) : Search(ParsePattern(item), n) })
              ELSE << >>
    ELSE IF item \in Elems(nodes) THEN << item >> ELSE << >>

RECURSIVE ItemsMembers(_, _)
ItemsMembers(items, nodes) ==
    IF items = << >> THEN << >>
    ELSE ItemMembers(items[1], nodes) \o ItemsMembers(Tail(items), nodes)

NoGroup == [ kind |-> "None" ]

\* the keyword fallback of the regional form when the pattern does not compile
KeywordMatch(pattern_str, node) ==
    \E k \in Elems(SplitAll(pattern_str, "|")) :
        \E i \in 0..Len(node) : i + Len(k) <= Len(node) /\ SubSeq(node, i + 1, i + Len(k)) = k

\* RuleProcessor._parse_custom_group
parse_custom_group(group_config, nodes) ==
    LET parts == SplitAll(group_config, BQ)
    IN  IF Len(parts) < 3 THEN NoGroup
        ELSE
        LET name         == parts[1]
            group_type   == parts[2]
            proxies_part == parts[3]
            url          == IF Len(parts) > 3 THEN parts[4] ELSE TestUrl
            interval_parts == IF Len(parts) > 4 THEN SplitAll(parts[5], ",") ELSE << >>
            interval     == IF Len(parts) > 4
                            THEN (IF IsDigit(interval_parts[1]) THEN ToInt(interval_parts[1]) ELSE 300)
                            ELSE 300
            tolerance    == IF Len(parts) > 4
                            THEN LastNumber(interval_parts, Len(interval_parts))
                            ELSE 50
            regional     == proxies_part # << >> /\ proxies_part[1] = "." /\ Last(proxies_part) = "."
            pattern_str  == SubSeq(proxies_part, 2, Len(proxies_part) - 1)
            found        == IF regional
                            THEN IF CompileOk(ParsePattern(pattern_str))
                                 THEN Keep(nodes, { n \in Elems(nodes) : Search(ParsePattern(pattern_str), n) })
                                 ELSE Keep(nodes, { n \in Elems(nodes) : KeywordMatch(pattern_str, n) })
                            ELSE ItemsMembers(FindBracketItems(proxies_part), nodes)
            proxies      == IF found = << >> /\ group_type \in TestTypes THEN nodes ELSE found
            base         == [ name |-> name, type |-> group_type, proxies |-> proxies ]
        IN  IF group_type = << "url-test" >>
            THEN [ name |-> name, type |-> group_type, proxies |-> proxies,
                   url |-> url, interval |-> interval, tolerance |-> tolerance ]
            ELSE IF group_type = << "load-balance" >>
            THEN [ name |-> name, type |-> group_type, proxies |-> proxies,
                   url |-> url, interval |-> interval, strategy |-> "consistent-hashing" ]
            ELSE IF group_type = << "fallback" >>
            THEN [ name |-> name, type |-> group_type, proxies |-> proxies,
                   url |-> url, interval |-> interval ]
            ELSE base

RECURSIVE ParsedGroups(_, _)
\* the loop over custom_groups: the groups that parse, in order
ParsedGroups(custom_groups, nodes) ==
    IF custom_groups = << >> THEN << >>
    ELSE LET group == parse_custom_group(custom_groups[1], nodes)
         IN  (IF group = NoGroup THEN << >> ELSE << group >>)
             \o ParsedGroups(Tail(custom_groups), nodes)

RoleGroups == { << "AUTO_SELECT" >>, << "FALLBACK" >>, << "LOAD_BALANCE" >> }

strategy_groups == << << "AUTO_SELECT" >>, << "FALLBACK" >>, << "LOAD_BALANCE" >>, << "DIRECT" >> >>

\* mutant: the selector keeps the proxies of its template
PopulateDefault_selector_untouched(group, nodes) ==
    IF group.name \in RoleGroups THEN [ group EXCEPT !.proxies = nodes ]
    ELSE group

\* one default group, populated (the body of the loop over default_groups)
PopulateDefault(group, nodes) ==
    IF group.name \in RoleGroups THEN [ group EXCEPT !.proxies = nodes ]
    ELSE IF group.name = << "NODE_SELECT" >> THEN [ group EXCEPT !.proxies = strategy_groups \o nodes ]
    ELSE group

\* RuleProcessor.generate_proxy_groups
generate_proxy_groups(nodes, custom_groups) ==
    IF TruthyList(custom_groups)
    THEN ParsedGroups(custom_groups.list, nodes)
    ELSE [ i \in 1..Len(default_groups) |-> PopulateDefault(default_groups[i], nodes) ]

GroupNodeNames == { << "Auto" >>, << "HK", "1" >>, << "us" >> }

GroupNodeLists == SeqsUpTo(GroupNodeNames, MaxNodes)

\* the group specification of the claim, G|select|[]DIRECT[]Auto|http://t|300,,50
\* with the field separator written |
ClaimGroupSpec ==
    << "G", BQ, "select", BQ, "[", "]", "DIRECT", "[", "]", "Auto", BQ, "http://t", BQ,
       "300", ",", ",", "50" >>

GroupSpecs ==
    { ClaimGroupSpec,
      << "G", BQ, "url-test", BQ, "[", "]", "DIRECT", "[", "]", "Auto", BQ, "http://t", BQ,
         "300", ",", ",", "50" >>,
      << "G", BQ, "select", BQ, "[", "DIRECT", "]", "[", "Auto", "]", BQ, "http://t", BQ, "300" >>,
      << "R", BQ, "url-test", BQ, ".", "HK", "|", "US", ".", BQ, "http://t", BQ, "600", ",", ",", "50" >>,
      << "S", BQ, "select", BQ, "[", ".*", "HK", ".*", "]", "[", "REJECT", "]" >>,
      << "F", BQ, "fallback", BQ, "[", "(", ".*", "]", BQ, "http://t", BQ, "x" >>,
      << "L", BQ, "load-balance", BQ, "[", "US", "]" >>,
      << "X", BQ, "select" >> }

GroupsArgs ==
    [ op : { "parse_custom_group" }, group_config : GroupSpecs, nodes : GroupNodeLists ]
    \cup
    [ op : { "generate_proxy_groups" }, nodes : GroupNodeLists,
      custom_groups : OptionalLists(GroupSpecs, MaxCustomGroups) ]

InitGroups ==
    /\ args \in GroupsArgs
    /\ result = << >>
    /\ pc = "call"
    /\ RegistryIdle
    /\ RealityIdle
    /\ ObjectIdle

ParseCustomGroup ==
    /\ pc = "call"
    /\ args.op = "parse_custom_group"
    /\ result' = parse_custom_group(args.group_config, args.nodes)
    /\ pc' = "done"
    /\ UNCHANGED <<args, registryVars, realityVars, objectVars>>

GenerateProxyGroups ==
    /\ pc = "call"
    /\ args.op = "generate_proxy_groups"
    /\ result' = generate_proxy_groups(args.nodes, args.custom_groups)
    /\ pc' = "done"
    /\ UNCHANGED <<args, registryVars, realityVars, objectVars>>

NextGroups == ParseCustomGroup \/ GenerateProxyGroups

SpecGroups == InitGroups /\ [][NextGroups]_vars

\* C3: parsing the specification G, select, []DIRECT[]Auto, http://t, 300,,50 yields the group G of
\* type select with members [DIRECT, Auto], interval 300 and tolerance 50
\* (checked for the node lists that contain a node named Auto).
C3_ClaimGroupParsed ==
    (pc = "done" /\ args.op = "parse_custom_group" /\ args.group_config = ClaimGroupSpec
        /\ << "Auto" >> \in Elems(args.nodes)) =>
        /\ result # NoGroup
        /\ result.name = << "G" >>
        /\ result.type = << "select" >>
        /\ result.proxies = << << "DIRECT" >>, << "Auto" >> >>
        /\ "interval" \in DOMAIN result /\ result.interval = 300
        /\ "tolerance" \in DOMAIN result /\ result.tolerance = 50

NoCustomGroups(a) == a.op = "generate_proxy_groups" /\ ~TruthyList(a.custom_groups)

GroupNamed(groups, name) == groups[CHOOSE i \in 1..Len(groups) : groups[i].name = name]

DefaultShape(groups, nodes) ==
    /\ Len(groups) = 9
    /\ \A i \in 1..9 : groups[i].name = default_groups[i].name /\ groups[i].type = default_groups[i].type
    /\ \A g \in RoleGroups : GroupNamed(groups, g).proxies = nodes

\* C4 (as stated): with no custom groups the nine template groups are returned
\* in template order, the three role groups hold the node list and the
\* top-level selector holds exactly the three role groups plus DIRECT.
C4_Original ==
    (pc = "done" /\ NoCustomGroups(args)) =>
        /\ DefaultShape(result, args.nodes)
        /\ GroupNamed(result, << "NODE_SELECT" >>).proxies = strategy_groups

\* C4 (amended): ... and the top-level selector holds the three role groups
\* plus DIRECT, followed by the full node-name list.
C4_DefaultGroups ==
    (pc = "done" /\ NoCustomGroups(args)) =>
        /\ DefaultShape(result, args.nodes)
        /\ GroupNamed(result, << "NODE_SELECT" >>).proxies = strategy_groups \o args.nodes

C4_Witness ==
    /\ pc = "done"
    /\ NoCustomGroups(args)
    /\ Len(args.nodes) = 2
    /\ Len(result) = 9
    /\ Len(result[1].proxies) = 6

----------------------------------------------------------------------------
(* Subscription conversion: SubscriptionConverter.convert_subscription      *)

MaxConvNodes == 2

NoText == [ none |-> TRUE ]
SomeText(t) == [ none |-> FALSE, text |-> t ]
TruthyText(o) == ~o.none /\ o.text # << >>

RECURSIVE ReSub(_, _, _)
\* re.sub(pattern, replacement, s, flags=re.IGNORECASE) for a pattern that is
\* a non-empty literal text: every non-overlapping occurrence, from the left
ReSub(pat, repl, s) ==
    IF Len(s) < Len(pat) THEN s
    ELSE IF LowerSeq(SubSeq(s, 1, Len(pat))) = LowerSeq(pat)
         THEN repl \o ReSub(pat, repl, SubSeq(s, Len(pat) + 1, Len(s)))
         ELSE << s[1] >> \o ReSub(pat, repl, Tail(s))

RECURSIVE ReSubEmpty(_, _)
\* re.sub('', replacement, s): the empty pattern matches before every
\* character and at the end
ReSubEmpty(repl, s) ==
    IF s = << >> THEN repl ELSE repl \o << s[1] >> \o ReSubEmpty(repl, Tail(s))

RECURSIVE ReSubAlt(_, _, _, _)
\* re.sub for an alternation of two non-empty literals: at each position the
\* first alternative is tried before the second
ReSubAlt(first, second, repl, s) ==
    IF s = << >> THEN << >>
    ELSE IF OccursAt(first, s, 0)
         THEN repl \o ReSubAlt(first, second, repl, SubSeq(s, Len(first) + 1, Len(s)))
    ELSE IF OccursAt(second, s, 0)
         THEN repl \o ReSubAlt(first, second, repl, SubSeq(s, Len(second) + 1, Len(s)))
    ELSE << s[1] >> \o ReSubAlt(first, second, repl, Tail(s))

\* re.sub(pattern, replacement, s, flags=re.IGNORECASE) for a compiled pattern
ReSubPattern(p, repl, s) ==
    CASE p.kind = "lit" -> IF p.s = << >> THEN ReSubEmpty(repl, s) ELSE ReSub(p.s, repl, s)
      [] p.kind = "start" ->
             IF OccursAt(p.s, s, 0) THEN repl \o SubSeq(s, Len(p.s) + 1, Len(s)) ELSE s
      [] p.kind = "alt" ->
             \* (the alternations used as rename patterns have no empty side)
             IF p.s = << >> \/ p.t = << >> THEN s ELSE ReSubAlt(p.s, p.t, repl, s)

\* one rename rule "pattern,replacement" applied to a name; a rule without a
\* comma is passed over, and so is one whose pattern does not compile (the
\* exception is caught and the loop continues)
ApplyRenameRule(rule, name) ==
    LET parts == SplitOnce(rule, ",")
    IN  IF Len(parts) # 2 THEN name
        ELSE IF ~CompileOk(ParsePattern(parts[1])) THEN name
        ELSE ReSubPattern(ParsePattern(parts[1]), parts[2], name)

RECURSIVE ApplyRenameRules_last_first(_, _)
RECURSIVE ApplyRenameRules(_, _)

\* mutant: the rules are applied from the last to the first
ApplyRenameRules_last_first(rename_rules, name) ==
    IF rename_rules = << >> THEN name
    ELSE ApplyRenameRule(rename_rules[1], ApplyRenameRules_last_first(Tail(rename_rules), name))

\* the loop over rename_rules for one name
ApplyRenameRules(rename_rules, name) ==
    IF rename_rules = << >> THEN name
    ELSE ApplyRenameRules(Tail(rename_rules), ApplyRenameRule(rename_rules[1], name))

\* RuleProcessor.apply_node_rename: the map old name -> new name
apply_node_rename(nodes, rename_rules) ==
    [ n \in Elems(nodes) |-> ApplyRenameRules(rename_rules, n) ]

\* the entries of flag_map whose keywords can occur in the names used here,
\* in the order of the dictionary
flag_map ==
    << [ pattern |-> Lit(<< "hk" >>), flag |-> << "RI_H", "RI_K" >> ],
       [ pattern |-> Lit(<< "jp" >>), flag |-> << "RI_J", "RI_P" >> ],
       [ pattern |-> Lit(<< "us" >>), flag |-> << "RI_U", "RI_S" >> ] >>

\* flag in node_name: the two regional-indicator characters of the flag occur
\* next to each other in the name
FlagIn(flag, node_name) ==
    \E i \in 1..Len(node_name) - 1 : node_name[i] = flag[1] /\ node_name[i + 1] = flag[2]

RECURSIVE EmojiFrom_always_prepends(_, _)
RECURSIVE EmojiFrom(_, _)

\* mutant: the flag is prepended without looking for it in the name
EmojiFrom_always_prepends(k, node_name) ==
    IF k > Len(flag_map) THEN node_name
    ELSE IF Search(flag_map[k].pattern, node_name)
         THEN flag_map[k].flag \o << " " >> \o node_name
         ELSE EmojiFrom_always_prepends(k + 1, node_name)

\* the loop over flag_map.items(), from the k-th entry on
EmojiFrom(k, node_name) ==
    IF k > Len(flag_map) THEN node_name
    ELSE IF Search(flag_map[k].pattern, node_name)
         THEN (IF ~FlagIn(flag_map[k].flag, node_name)
               THEN flag_map[k].flag \o << " " >> \o node_name
               ELSE node_name)
         ELSE EmojiFrom(k + 1, node_name)

\* RuleProcessor.add_emoji_flags
add_emoji_flags(node_name) == EmojiFrom(1, node_name)

\* SubscriptionConverter._apply_node_filters
ConvApplyNodeFilters(nodes, request) ==
    LET node_names     == [ i \in 1..Len(nodes) |-> nodes[i].name ]
        filtered_names == apply_node_filters(node_names, request.include, request.exclude)
    IN  Keep(nodes, { n \in Elems(nodes) : n.name \in Elems(filtered_names) })

\* SubscriptionConverter._apply_node_rename
ConvApplyNodeRename(nodes, request) ==
    LET node_names   == [ i \in 1..Len(nodes) |-> nodes[i].name ]
        rename_rules == IF TruthyText(request.rename) THEN << request.rename.text >> ELSE << >>
        rename_map   == apply_node_rename(node_names, rename_rules)
        NewName(n)   == IF request.emoji THEN add_emoji_flags(rename_map[n.name]) ELSE rename_map[n.name]
    IN  [ i \in 1..Len(nodes) |-> [ nodes[i] EXCEPT !.name = NewName(nodes[i]) ] ]

\* SubscriptionConverter._convert_node_to_clash for ss and vmess nodes that
\* carry no transport options
convert_node_to_clash(node, request) ==
    LET base_config == [ name |-> node.name, type |-> node.type, server |-> node.server, port |-> node.port ]
        proto == IF node.type = "ss"
                 THEN [ cipher |-> node.cipher, password |-> node.password, udp |-> request.udp /\ node.udp ]
                 ELSE [ uuid |-> node.uuid, alterId |-> 0,
                        cipher |-> IF node.cipher \in { "None", "" } THEN "auto" ELSE node.cipher,
                        udp |-> request.udp /\ node.udp ]
        tls   == IF node.type = "vmess" /\ node.tls
                 THEN IF request.scv THEN [ tls |-> TRUE, tlsopts |-> [ skipcertverify |-> TRUE ] ]
                      ELSE [ tls |-> TRUE ]
                 ELSE << >>
        tfo   == IF request.tfo THEN [ tfo |-> TRUE ] ELSE << >>
    IN  base_config @@ proto @@ tls @@ tfo

\* the value stored under a key of the document, with the Python type that
\* yaml.dump writes out (a tuple is dumped under the tag !!python/tuple)
PyList(items)  == [ pytype |-> "list", items |-> items ]
PyTuple(items) == [ pytype |-> "tuple", items |-> items ]

\* what _generate_clash_config stores under rules: the value returned by
\* generate_rules, i.e. the pair (rules, rule_providers)
ClashRules(r) == PyTuple(<< r.rules, r.providers >>)

NoRemote == [ none |-> TRUE ]

\* SubscriptionConverter._generate_clash_config (remote configs without template)
generate_clash_config(nodes, request, remote_config) ==
    LET clash_proxies   == [ i \in 1..Len(nodes) |-> convert_node_to_clash(nodes[i], request) ]
        node_names      == [ i \in 1..Len(nodes) |-> nodes[i].name ]
        custom_groups   == IF remote_config.none THEN NoneList ELSE SomeList(remote_config.custom_proxy_group)
        custom_rulesets == IF remote_config.none THEN NoneList ELSE SomeList(remote_config.ruleset)
    IN  [ port          |-> 7890,
          mode          |-> "rule",
          proxies       |-> clash_proxies,
          proxy_groups  |-> generate_proxy_groups(node_names, custom_groups),
          rules         |-> ClashRules(generate_rules(custom_rulesets, request.custom_rules)) ]

Failure(message) == [ success |-> FALSE, message |-> message, nodes_count |-> 0 ]

\* SubscriptionConverter.convert_subscription; all_nodes is what the
\* subscriptions of request.url yield, remote_config what the remote rule
\* configuration yields
convert_subscription(all_nodes, request, remote_config) ==
    IF all_nodes = << >> THEN Failure("no valid node")
    ELSE LET filtered_nodes == ConvApplyNodeFilters(all_nodes, request)
         IN  IF filtered_nodes = << >> THEN Failure("no node left after filtering")
             ELSE LET renamed_nodes == ConvApplyNodeRename(filtered_nodes, request)
                  IN  [ success     |-> TRUE,
                        message     |-> "ok",
                        config      |-> generate_clash_config(renamed_nodes, request, remote_config),
                        nodes_count |-> Len(renamed_nodes) ]

ConvNames == { << "hk", "1" >>, << "US" >>, << "RI_H", "RI_K", " ", "hk" >> }

SSNode(name) ==
    [ name |-> name, type |-> "ss", server |-> "example1.com", port |-> 443,
      cipher |-> "aes-256-gcm", password |-> "password1", uuid |-> "None", tls |-> FALSE, udp |-> TRUE ]

VMessNode(name, tls) ==
    [ name |-> name, type |-> "vmess", server |-> "example2.com", port |-> 443,
      cipher |-> "None", password |-> "None", uuid |-> "12345678", tls |-> tls, udp |-> TRUE ]

ConvNodes == { SSNode(n) : n \in ConvNames } \cup { VMessNode(n, FALSE) : n \in ConvNames }
                \cup { VMessNode(<< "jp" >>, TRUE) }

ConvRequests ==
    [ include      : { NoPattern, Lit(<< "hk" >>) },
      exclude      : { NoPattern, Lit(<< "us" >>) },
      rename       : { NoText, SomeText(<< "hk", ",", "jp" >>) },
      emoji        : BOOLEAN,
      udp          : BOOLEAN,
      tfo          : BOOLEAN,
      scv          : BOOLEAN,
      custom_rules : { NoneList, SomeList(<< >>), SomeList(<< << "DOMAIN", ",", "a.com", ",", "DIRECT" >> >>) } ]

RemoteConfigs ==
    { NoRemote,
      [ none |-> FALSE, custom_proxy_group |-> << >>, ruleset |-> << >> ],
      [ none |-> FALSE,
        custom_proxy_group |-> << << "L", BQ, "load-balance", BQ, "[", "US", "]" >> >>,
        ruleset |-> << << "P", ",", "https", ":", "/", "/", "h", "/", "a", ".list" >> >> ] }

InitConvert ==
    /\ args \in [ all_nodes : SeqsUpTo(ConvNodes, MaxConvNodes), request : ConvRequests,
                  remote_config : RemoteConfigs ]
    /\ result = << >>
    /\ pc = "call"
    /\ RegistryIdle
    /\ RealityIdle
    /\ ObjectIdle

ConvertSubscription ==
    /\ pc = "call"
    /\ result' = convert_subscription(args.all_nodes, args.request, args.remote_config)
    /\ pc' = "done"
    /\ UNCHANGED <<args, registryVars, realityVars, objectVars>>

NextConvert == ConvertSubscription

SpecConvert == InitConvert /\ [][NextConvert]_vars

\* the case of the claim: one SS node and one VMess node, no remote rule
\* configuration, no custom rules, and the conversion succeeds with both nodes
OneSSOneVMess(a) ==
    /\ Len(a.all_nodes) = 2
    /\ { a.all_nodes[1].type, a.all_nodes[2].type } = { "ss", "vmess" }
    /\ a.remote_config.none
    /\ ~TruthyList(a.request.custom_rules)

NamesAfterRename(a) ==
    LET renamed == ConvApplyNodeRename(a.all_nodes, a.request)
    IN  [ i \in 1..Len(renamed) |-> renamed[i].name ]

\* C5: converting a subscription that yields one SS node and one VMess node,
\* with no remote rule configuration and no custom rules, produces a document
\* whose proxies holds both node names, whose proxy-groups is the default
\* nine-group set, and whose rules is a list of rule strings ending in the
\* bundled catch-all MATCH rule.
C5_ClashDocument ==
    (pc = "done" /\ OneSSOneVMess(args) /\ result.success /\ result.nodes_count = 2) =>
        /\ [ i \in 1..2 |-> result.config.proxies[i].name ] = NamesAfterRename(args)
        /\ Len(result.config.proxy_groups) = 9
        /\ \A i \in 1..9 : result.config.proxy_groups[i].name = default_groups[i].name
        /\ result.config.rules.pytype = "list"
        /\ Last(result.config.rules.items) = Last(default_rules)

----------------------------------------------------------------------------
(* The parser registry: ProtocolParserRegistry.register_parser / get_parser *)

MaxRegistrations == 3

\* the parser classes of the repository and the schemes they declare
ParserClasses == { "hysteria2", "tuic", "vless-reality", "wireguard" }

protocol_schemes(cls) ==
    CASE cls = "hysteria2"     -> << << "hysteria2" >>, << "hy2" >> >>
      [] cls = "tuic"          -> << << "tuic" >>, << "tuic4" >>, << "tuic5" >> >>
      [] cls = "vless-reality" -> << << "vless" >> >>
      [] cls = "wireguard"     -> << << "wg" >>, << "wireguard" >> >>

\* the URLs looked up: known schemes in several spellings, an unknown scheme,
\* texts without "://", a text with two "://"
LookupUrls ==
    { << "wg", "://", "k", "@", "h" >>,
      << "WG", "://", "k", "@", "h" >>,
      << "Tuic5", "://", "u", "@", "h" >>,
      << "vless", "://", "u", "@", "h", "://", "x" >>,
      << "hy2", "://", "h" >>,
      << "invalid", "://", "malformed-url" >>,
      << "wg", ":", "k", "@", "h" >>,
      << "://", "h" >>,
      << "not-a-url" >> }

RECURSIVE BindFrom_keep_existing(_, _, _, _)
RECURSIVE BindFrom(_, _, _, _)

\* mutant: a scheme that is already bound keeps its parser
BindFrom_keep_existing(bound, schemes, k, parser) ==
    IF k > Len(schemes) THEN bound
    ELSE BindFrom_keep_existing(
             IF schemes[k] \in DOMAIN bound THEN bound ELSE (schemes[k] :> parser) @@ bound,
             schemes, k + 1, parser)

\* the loop of register_parser: self._parsers[scheme] = parser for every
\* declared scheme, from the k-th on
BindFrom(bound, schemes, k, parser) ==
    IF k > Len(schemes) THEN bound
    ELSE BindFrom((schemes[k] :> parser) @@ bound, schemes, k + 1, parser)

\* the schemes for which register_parser logs the overwrite warning
Overwritten(bound, schemes) == { schemes[k] : k \in 1..Len(schemes) } \cap DOMAIN bound

\* ProtocolParserRegistry.get_parser
get_parser(bound, url) ==
    LET scheme == IF Contains(url, "://") THEN LowerSeq(SplitAll(url, "://")[1]) ELSE << >>
    IN  IF scheme \in DOMAIN bound THEN bound[scheme] ELSE NoParser

InitRegistry ==
    /\ parsers = << >>
    /\ regLog = << >>
    /\ lookup = [ url |-> << >>, parser |-> NoParser, at |-> 0 ]
    /\ PureIdle
    /\ RealityIdle
    /\ ObjectIdle

\* register_parser(parser) with a new parser object of class cls
RegisterParser(cls) ==
    /\ Len(regLog) < MaxRegistrations
    /\ LET parser == [ cls |-> cls, id |-> Len(regLog) + 1 ]
       IN  /\ parsers' = BindFrom(parsers, protocol_schemes(cls), 1, parser)
           /\ regLog' = Append(regLog, [ parser |-> parser,
                                         warned |-> Overwritten(parsers, protocol_schemes(cls)),
                                         raised |-> FALSE ])
    /\ UNCHANGED <<lookup, pureVars, realityVars, objectVars>>

GetParser(url) ==
    /\ lookup' = [ url |-> url, parser |-> get_parser(parsers, url), at |-> Len(regLog) ]
    /\ UNCHANGED <<parsers, regLog, pureVars, realityVars, objectVars>>

NextRegistry ==
    \/ \E cls \in ParserClasses : RegisterParser(cls)
    \/ \E url \in LookupUrls : GetParser(url)

SpecRegistry == InitRegistry /\ [][NextRegistry]_vars

\* the scheme of a URI: the text before the first "://", lower-cased
UriScheme(url) == LowerSeq(SplitAll(url, "://")[1])

Declares(cls, scheme) == \E k \in 1..Len(protocol_schemes(cls)) : protocol_schemes(cls)[k] = scheme

\* the registrations among the first n that declare the scheme
Declaring(scheme, n) == { i \in 1..n : Declares(regLog[i].parser.cls, scheme) }

Latest(S) == CHOOSE i \in S : \A j \in S : j <= i

\* C6: after any sequence of register_parser calls, get_parser(uri) returns the
\* parser most recently registered among those declaring the URI's scheme (the
\* text before "://", case-insensitive) and none when the URI has no "://" or
\* no registered parser declares the scheme; re-registering a scheme overwrites
\* the earlier binding and raises no error.
C6_LastRegisteredWins ==
    /\ lookup.url # << >> =>
          IF Contains(lookup.url, "://") /\ Declaring(UriScheme(lookup.url), lookup.at) # { }
          THEN lookup.parser = regLog[Latest(Declaring(UriScheme(lookup.url), lookup.at))].parser
          ELSE lookup.parser = NoParser
    /\ \A i \in 1..Len(regLog) :
          /\ ~regLog[i].raised
          /\ \A k \in 1..Len(protocol_schemes(regLog[i].parser.cls)) :
                LET scheme == protocol_schemes(regLog[i].parser.cls)[k]
                IN  parsers[scheme] = regLog[Latest(Declaring(scheme, Len(regLog)))].parser

\* a lookup with an upper-case scheme answered by the second parser registered
\* for that scheme, after the first one's binding was overwritten
C6_Witness ==
    /\ lookup.url = << "WG", "://", "k", "@", "h" >>
    /\ lookup.at >= 2
    /\ lookup.parser.cls = "wireguard"
    /\ lookup.parser.id >= 2
    /\ \E i \in 1..(lookup.parser.id - 1) : regLog[i].parser.cls = "wireguard"
    /\ regLog[lookup.parser.id].warned = { << "wg" >>, << "wireguard" >> }

----------------------------------------------------------------------------
(* WireGuard: WireGuardParser.parse_url / parse_clash_config /              *)
(* parse_wg_config                                                          *)

\* key texts: a canonical 44-character key, the same key without padding, a
\* text that decodes to 33 bytes, one that decodes to 16 bytes, and a text
\* base64.b64decode rejects; "None" stands for an absent value
KeyTexts == { "K32", "K32u", "K33", "K16", "Kbad" }
OptKeys == KeyTexts \cup { "None" }

\* len(base64.b64decode(key + '==')), -1 when b64decode raises
DecodedLen(key) ==
    CASE key = "K32" -> 32 [] key = "K32u" -> 32 [] key = "K33" -> 33
      [] key = "K16" -> 16 [] key = "Kbad" -> -1

Given(v) == v # "None" /\ v # ""

\* WireGuardParser._validate_wg_key
validate_wg_key(key) == Given(key) /\ DecodedLen(key) = 32

\* x or y
Or(x, y) == IF Given(x) THEN x ELSE y

ParseError(kind) == [ success |-> FALSE, error |-> kind ]

\* the ProxyNode built by the three parse operations
WGNode(name, server, port, wg_config) ==
    [ name |-> name, type |-> "wireguard", server |-> server, port |-> port, udp |-> TRUE,
      uuid |-> "None", password |-> "None", cipher |-> "None",
      extra_config |-> [ has |-> TRUE, wireguard |-> wg_config ] ]

\* IProtocolParser.validate_node
validate_node(node) ==
    (IF node.name = << >> THEN << "empty name" >> ELSE << >>)
    \o (IF node.server = << >> THEN << "empty server" >> ELSE << >>)
    \o (IF ~(1 <= node.port /\ node.port <= 65535) THEN << "invalid port" >> ELSE << >>)

\* BaseProtocolParser.can_parse for the WireGuard parser
wg_can_parse(scheme) == Lower(scheme) \in { "wg", "wireguard" }

\* WireGuardParser.parse_url; url holds the parts urlparse and parse_qsl
\* extract, extra_ok tells whether a ProxyNode accepts the undeclared
\* attribute extra_config
parse_url(url, extra_ok) ==
    IF ~wg_can_parse(url.scheme) THEN ParseError("unsupported scheme")
    ELSE IF url.hostname = << >> THEN ParseError("missing server")
    ELSE IF ~extra_ok THEN ParseError("exception")
    ELSE
    LET port        == IF url.port = 0 THEN 51820 ELSE url.port
        name        == IF url.fragment # << >> THEN url.fragment ELSE url.hostname \o << ":", "51820" >>
        private_key == Or(url.username, url.private_key)
    IN  IF Given(private_key) /\ ~validate_wg_key(private_key) THEN ParseError("invalid private key format")
        ELSE IF ~Given(url.public_key) THEN ParseError("missing peer public key")
        ELSE IF ~validate_wg_key(url.public_key) THEN ParseError("invalid public key format")
        ELSE LET wg_config == [ private_key     |-> private_key,
                                peer_public_key |-> url.public_key,
                                preshared_key   |-> IF validate_wg_key(url.preshared_key)
                                                    THEN url.preshared_key ELSE "None",
                                allowed_ips     |-> << "0.0.0.0/0" >>,
                                address         |-> << >> ]
                 node == WGNode(name, url.hostname, port, wg_config)
             IN  [ success  |-> TRUE, node |-> node,
                   warnings |-> validate_node(node)
                                \o (IF ~Given(private_key) THEN << "missing private key" >> ELSE << >>) ]

\* config.get(key) is truthy ? config[key] : not stored
Stored(v) == IF Given(v) THEN v ELSE "None"

\* WireGuardParser.parse_clash_config
parse_clash_config(config, extra_ok) ==
    IF config.type # "wireguard" THEN ParseError("type is not wireguard")
    ELSE IF config.server = << >> THEN ParseError("missing server")
    ELSE IF ~extra_ok THEN ParseError("exception")
    ELSE LET wg_config == [ private_key     |-> Stored(config.private_key),
                            peer_public_key |-> Stored(config.public_key),
                            preshared_key   |-> Stored(config.preshared_key),
                            allowed_ips     |-> << >>, address |-> << >> ]
             node == WGNode(config.name, config.server,
                            IF config.port = 0 THEN 51820 ELSE config.port, wg_config)
         IN  [ success |-> TRUE, node |-> node, warnings |-> validate_node(node) ]

\* dict.get with the empty text for a missing key
Get(d, key) == IF key \in DOMAIN d THEN d[key] ELSE << >>

IsSectionHeader(line) == Len(line) >= 3 /\ line[1] = "[" /\ line[3] = "]" /\ line[2] \notin { "[", "]", " ", "=" }

RECURSIVE IniFrom(_, _, _, _)
\* the loop of _parse_ini_format over the lines, from the k-th on
IniFrom(lines, k, config, current_section) ==
    IF k > Len(lines) THEN config
    ELSE LET line == Strip(lines[k])
         IN  IF line = << >> \/ line[1] = "#" THEN IniFrom(lines, k + 1, config, current_section)
             ELSE IF IsSectionHeader(line)
                  THEN IniFrom(lines, k + 1, (line[2] :> << >>) @@ config, line[2])
             ELSE IF current_section # "None" /\ Contains(line, "=")
                  THEN LET kv == SplitOnce(line, "=")
                           section == (Strip(kv[1]) :> Strip(kv[2])) @@ config[current_section]
                       IN  IniFrom(lines, k + 1, (current_section :> section) @@ config, current_section)
             ELSE IniFrom(lines, k + 1, config, current_section)

\* WireGuardParser._parse_ini_format
parse_ini_format(lines) == IniFrom(lines, 1, << >>, "None")

\* the text of a configuration value that is a single word, "None" when missing
Word(v) == IF v = << >> THEN "None" ELSE v[1]

\* WireGuardParser.parse_wg_config
parse_wg_config(config_text, extra_ok) ==
    LET config    == parse_ini_format(config_text)
        interface == IF "Interface" \in DOMAIN config THEN config["Interface"] ELSE << >>
        peer      == IF "Peer" \in DOMAIN config THEN config["Peer"] ELSE << >>
        endpoint  == Get(peer, << "Endpoint" >>)
    IN  IF DOMAIN peer = { } THEN ParseError("missing [Peer] section")
        ELSE IF endpoint = << >> THEN ParseError("missing Endpoint")
        ELSE IF ~extra_ok THEN ParseError("exception")
        ELSE
        LET colon  == LastIndexOf(endpoint, ":", Len(endpoint))
            server == IF colon = 0 THEN endpoint ELSE SubSeq(endpoint, 1, colon - 1)
            port_str == IF colon = 0 THEN << >> ELSE SubSeq(endpoint, colon + 1, Len(endpoint))
            port   == IF colon # 0 /\ IsDigit(port_str) THEN ToInt(port_str) ELSE 51820
            name   == << "WireGuard-" >> \o server \o << ":" >>
                      \o (IF colon # 0 /\ IsDigit(port_str) THEN port_str ELSE << "51820" >>)
            wg_config == [ private_key     |-> Word(Get(interface, << "PrivateKey" >>)),
                           peer_public_key |-> Word(Get(peer, << "PublicKey" >>)),
                           preshared_key   |-> Word(Get(peer, << "PresharedKey" >>)),
                           allowed_ips     |-> << >>, address |-> << >> ]
            node == WGNode(name, server, port, wg_config)
        IN  [ success |-> TRUE, node |-> node, warnings |-> validate_node(node) ]

\* inputs of the three shapes carrying the same three (optional) keys
WGUrl(scheme, hostname, private, public, psk) ==
    [ scheme |-> scheme, username |-> private, private_key |-> "None", hostname |-> hostname, port |-> 0,
      public_key |-> public, preshared_key |-> psk, fragment |-> << "wg", "1" >> ]

WGMap(type, server, private, public, psk) ==
    [ type |-> type, name |-> << "wg", "1" >>, server |-> server, port |-> 51820,
      private_key |-> private, public_key |-> public, preshared_key |-> psk ]

KeyLine(key, v) == IF v = "None" THEN << >> ELSE << << key, " ", "=", " ", v >> >>

WGIni(withPeer, endpoint, private, public, psk) ==
    << << "[", "Interface", "]" >> >> \o KeyLine("PrivateKey", private)
    \o << << >>, << "#", " ", "peer" >> >>
    \o (IF withPeer
        THEN << << "[", "Peer", "]" >> >> \o KeyLine("PublicKey", public) \o KeyLine("PresharedKey", psk)
             \o (IF endpoint THEN << << "Endpoint", " ", "=", " ", "h", ":", "51820" >> >> ELSE << >>)
        ELSE << >>)

WGArgs ==
    { [ shape |-> "url", input |-> WGUrl(s, h, a, b, c), keys |-> << a, b, c >>, extra_ok |-> e ] :
        s \in { "wg", "WG", "vless" }, h \in { << "h" >>, << >> },
        a \in OptKeys, b \in OptKeys, c \in OptKeys, e \in BOOLEAN }
    \cup
    { [ shape |-> "map", input |-> WGMap(t, h, a, b, c), keys |-> << a, b, c >>, extra_ok |-> e ] :
        t \in { "wireguard", "ss" }, h \in { << "h" >>, << >> },
        a \in OptKeys, b \in OptKeys, c \in OptKeys, e \in BOOLEAN }
    \cup
    { [ shape |-> "ini", input |-> WGIni(p, ep, a, b, c), keys |-> << a, b, c >>, extra_ok |-> e ] :
        p \in BOOLEAN, ep \in BOOLEAN,
        a \in OptKeys, b \in OptKeys, c \in OptKeys, e \in BOOLEAN }

InitWireGuard ==
    /\ args \in WGArgs
    /\ result = << >>
    /\ pc = "call"
    /\ RegistryIdle
    /\ RealityIdle
    /\ ObjectIdle

ParseUrl ==
    /\ pc = "call" /\ args.shape = "url"
    /\ result' = parse_url(args.input, args.extra_ok)
    /\ pc' = "done"
    /\ UNCHANGED <<args, registryVars, realityVars, objectVars>>

ParseClashConfig ==
    /\ pc = "call" /\ args.shape = "map"
    /\ result' = parse_clash_config(args.input, args.extra_ok)
    /\ pc' = "done"
    /\ UNCHANGED <<args, registryVars, realityVars, objectVars>>

ParseWgConfig ==
    /\ pc = "call" /\ args.shape = "ini"
    /\ result' = parse_wg_config(args.input, args.extra_ok)
    /\ pc' = "done"
    /\ UNCHANGED <<args, registryVars, realityVars, objectVars>>

NextWireGuard == ParseUrl \/ ParseClashConfig \/ ParseWgConfig

SpecWireGuard == InitWireGuard /\ [][NextWireGuard]_vars

\* the keys an input supplies
SuppliedKeys(a) == { a.keys[i] : i \in 1..3 } \ { "None" }

\* a key text that base64-decodes to exactly 32 bytes
Is32ByteKey(key) == key \in { "K32", "K32u" }

KeyFormatErrors == { "invalid private key format", "invalid public key format", "invalid preshared key format" }

\* an input that is complete apart from the validity of its keys
WellFormedWG(a) ==
    /\ a.keys[1] # "None" /\ a.keys[2] # "None"
    /\ CASE a.shape = "url" -> wg_can_parse(a.input.scheme) /\ a.input.hostname # << >>
         [] a.shape = "map" -> a.input.type = "wireguard" /\ a.input.server # << >>
         [] a.shape = "ini" -> \E k \in 1..Len(a.input) : a.input[k] # << >> /\ a.input[k][1] = "Endpoint"

----------------------------------------------------------------------------
(* Config generators: TuicConfigGenerator, WireGuardConfigGenerator,        *)
(* SingBoxConfigGenerator; SubscriptionParser.parse_subscription            *)

MaxGenNodes == 2
MaxLines == 3

GenError(kind) == [ success |-> FALSE, error |-> kind ]
GenSuccess(config, warnings) == [ success |-> TRUE, config |-> config, warnings |-> warnings ]

\* ConfigGenerationResult.is_valid
IsValid(r) == r.success

\* the fields of a ProxyNode that may hold None (name, server, port and type
\* are required by the model class)
OptionalFields == { "uuid", "password", "cipher" }

\* BaseConfigGenerator._validate_required_fields: the listed fields that are None
validate_required_fields(node, fields) == { f \in fields \cap OptionalFields : node[f] = "None" }

\* BaseConfigGenerator._filter_none_values, for the keys that may hold None
filter_none_values(config, keys) ==
    [ k \in DOMAIN config \ { n \in keys \cap DOMAIN config : config[n] = "None" } |-> config[k] ]

NoExtra == [ has |-> FALSE ]
NoWG == [ private_key |-> "None", peer_public_key |-> "None", preshared_key |-> "None",
          allowed_ips |-> << >>, address |-> << >> ]

\* hasattr(node, 'extra_config') and node.extra_config.get('wireguard'): the
\* attribute exists and the wireguard dictionary has at least one entry
HasWGConfig(node) ==
    /\ node.extra_config.has
    /\ node.extra_config.wireguard # NoWG

\* TuicConfigGenerator._generate_clash_config
tuic_generate_clash_config(node) ==
    filter_none_values(
        [ name |-> node.name, type |-> "tuic", server |-> node.server, port |-> node.port,
          uuid |-> node.uuid, password |-> node.password, udp |-> TRUE, version |-> 5 ],
        { "uuid", "password" })

\* TuicConfigGenerator._generate_sing_box_config
tuic_generate_sing_box_config(node) ==
    filter_none_values(
        [ type |-> "tuic", tag |-> node.name, server |-> node.server, server_port |-> node.port,
          uuid |-> node.uuid, password |-> node.password, version |-> 5,
          congestion_control |-> "cubic", udp_relay_mode |-> "native" ],
        { "uuid", "password" })

\* TuicConfigGenerator.generate_proxy_config
tuic_generate_proxy_config(node, format_type) ==
    IF Lower(node.type) \notin { "tuic", "tuic4", "tuic5" } THEN GenError("unsupported protocol")
    ELSE IF validate_required_fields(node, { "name", "server", "port", "uuid", "password" }) # { }
         THEN GenError("validation failed")
    ELSE LET warnings == (IF ~Given(node.uuid) THEN << "missing uuid" >> ELSE << >>)
                         \o (IF ~Given(node.password) THEN << "missing password" >> ELSE << >>)
         IN  IF format_type \in { "clash", "clash-meta" }
             THEN GenSuccess(tuic_generate_clash_config(node), warnings)
             ELSE IF format_type = "sing-box"
             THEN GenSuccess(tuic_generate_sing_box_config(node), warnings)
             ELSE GenError("unsupported format")

\* the optional entries of a WireGuard outbound
WGOptional(wg_config) ==
    (IF Given(wg_config.preshared_key) THEN [ pre_shared_key |-> wg_config.preshared_key ] ELSE << >>)
    @@ (IF wg_config.address # << >> THEN [ local_address |-> wg_config.address ] ELSE << >>)

\* WireGuardConfigGenerator._generate_sing_box_config
wg_generate_sing_box_config(node) ==
    LET wg_config == node.extra_config.wireguard
    IN  [ type |-> "wireguard", tag |-> node.name, server |-> node.server, server_port |-> node.port,
          private_key |-> wg_config.private_key, peer_public_key |-> wg_config.peer_public_key,
          mtu |-> 1420, gso |-> FALSE ] @@ WGOptional(wg_config)

\* WireGuardConfigGenerator.generate_proxy_config
wg_generate_proxy_config(node, format_type) ==
    IF Lower(node.type) \notin { "wireguard", "wg" } THEN GenError("unsupported protocol")
    ELSE IF validate_required_fields(node, { "name", "server", "port" }) # { }
         THEN GenError("validation failed")
    ELSE IF ~HasWGConfig(node) THEN GenError("missing wireguard config")
    ELSE IF ~Given(node.extra_config.wireguard.private_key) THEN GenError("missing private key")
    ELSE IF ~Given(node.extra_config.wireguard.peer_public_key) THEN GenError("missing peer public key")
    ELSE IF format_type = "sing-box"
         THEN GenSuccess(wg_generate_sing_box_config(node),
                         IF node.extra_config.wireguard.address = << >>
                         THEN << "missing local address" >> ELSE << >>)
         ELSE GenError("unsupported format")

\* str(port)
PortText(port) == CASE port = 443 -> "443" [] port = 51820 -> "51820"

Raised(exception) == [ raised |-> TRUE, exception |-> exception ]
Returned(value) == [ raised |-> FALSE, value |-> value ]

\* WireGuardConfigGenerator.generate_wg_config: the lines of the text it
\* returns, or the exception it raises
generate_wg_config(node) ==
    IF ~HasWGConfig(node) THEN Raised("ValueError")
    ELSE LET wg_config == node.extra_config.wireguard
         IN  Returned(
                 << << "[Interface]" >> >>
                 \o (IF Given(wg_config.private_key)
                     THEN << << "PrivateKey", " ", "=", " ", wg_config.private_key >> >> ELSE << >>)
                 \o (IF wg_config.address # << >>
                     THEN << << "Address", " ", "=", " " >> \o wg_config.address >> ELSE << >>)
                 \o << << >>, << "[Peer]" >> >>
                 \o (IF Given(wg_config.peer_public_key)
                     THEN << << "PublicKey", " ", "=", " ", wg_config.peer_public_key >> >> ELSE << >>)
                 \o (IF Given(wg_config.preshared_key)
                     THEN << << "PresharedKey", " ", "=", " ", wg_config.preshared_key >> >> ELSE << >>)
                 \o << << "Endpoint", " ", "=", " " >> \o node.server \o << ":", PortText(node.port) >> >>
                 \o (IF wg_config.allowed_ips # << >>
                     THEN << << "AllowedIPs", " ", "=", " " >> \o wg_config.allowed_ips >> ELSE << >>))

\* the protocols in SingBoxConfigGenerator.supports_protocol
SingBoxProtocols ==
    { "ss", "shadowsocks", "vmess", "vless", "trojan", "hysteria", "hysteria2", "tuic", "wireguard", "wg" }

\* SingBoxConfigGenerator._generate_tuic_config
singbox_generate_tuic_config(node) ==
    filter_none_values(
        [ type |-> "tuic", tag |-> node.name, server |-> node.server, server_port |-> node.port,
          uuid |-> node.uuid, password |-> node.password, version |-> 5,
          congestion_control |-> "cubic", udp_relay_mode |-> "native",
          tls |-> [ enabled |-> TRUE, server_name |-> node.server, insecure |-> FALSE ] ],
        { "uuid", "password" })

\* SingBoxConfigGenerator._generate_shadowsocks_config
singbox_generate_shadowsocks_config(node) ==
    filter_none_values(
        [ type |-> "shadowsocks", tag |-> node.name, server |-> node.server, server_port |-> node.port,
          method |-> node.cipher, password |-> node.password ],
        { "method", "password" })

\* SingBoxConfigGenerator._generate_wireguard_config: the outbound, or the
\* exception raised (ValueError without a wireguard dictionary, KeyError
\* when it lacks a key)
singbox_generate_wireguard_config(node) ==
    IF ~HasWGConfig(node) THEN Raised("ValueError")
    ELSE LET wg_config == node.extra_config.wireguard
         IN  IF wg_config.private_key = "None" \/ wg_config.peer_public_key = "None"
             THEN Raised("KeyError")
             ELSE Returned(
                      [ type |-> "wireguard", tag |-> node.name, server |-> node.server,
                        server_port |-> node.port, private_key |-> wg_config.private_key,
                        peer_public_key |-> wg_config.peer_public_key, mtu |-> 1420 ]
                      @@ WGOptional(wg_config))

\* SingBoxConfigGenerator._generate_outbound_config for the protocols of the
\* nodes used here
singbox_generate_outbound_config(node) ==
    LET protocol == Lower(node.type)
    IN  IF protocol \in { "ss", "shadowsocks" } THEN Returned(singbox_generate_shadowsocks_config(node))
        ELSE IF protocol = "tuic" THEN Returned(singbox_generate_tuic_config(node))
        ELSE IF protocol \in { "wireguard", "wg" } THEN singbox_generate_wireguard_config(node)
        ELSE Raised("ValueError")

\* SingBoxConfigGenerator.generate_proxy_config
singbox_generate_proxy_config(node, format_type) ==
    IF Lower(node.type) \notin SingBoxProtocols THEN GenError("unsupported protocol")
    ELSE IF validate_required_fields(node, { "name", "server", "port", "type" }) # { }
         THEN GenError("validation failed")
    ELSE LET out == singbox_generate_outbound_config(node)
         IN  IF out.raised THEN GenError("exception") ELSE GenSuccess(out.value, << >>)

RECURSIVE Outbounds(_)
\* the loop of generate_full_config: the nodes whose generation is valid,
\* each with its outbound
Outbounds(nodes) ==
    IF nodes = << >> THEN << >>
    ELSE LET outbound_result == singbox_generate_proxy_config(nodes[1], "sing-box")
         IN  (IF IsValid(outbound_result)
              THEN << [ tag |-> nodes[1].name, outbound |-> outbound_result.config ] >>
              ELSE << >>)
             \o Outbounds(Tail(nodes))

\* SingBoxConfigGenerator.generate_full_config; the configuration is
\* represented by its proxy outbounds and their tags
generate_full_config(nodes) ==
    LET valid == Outbounds(nodes)
    IN  IF valid = << >> THEN GenError("no valid proxy node")
        ELSE GenSuccess([ outbounds |-> [ i \in 1..Len(valid) |-> valid[i].outbound ],
                          node_tags |-> [ i \in 1..Len(valid) |-> valid[i].tag ] ],
                        << "generated" >>)

\* the nodes handed to the generators
TuicNode(uuid, password) ==
    [ name |-> << "t" >>, type |-> "tuic", server |-> << "h" >>, port |-> 443,
      uuid |-> uuid, password |-> password, cipher |-> "None", extra_config |-> NoExtra ]

WireGuardNode(extra) ==
    [ name |-> << "w" >>, type |-> "wireguard", server |-> << "h" >>, port |-> 51820,
      uuid |-> "None", password |-> "None", cipher |-> "None", extra_config |-> extra ]

ShadowsocksNode(password) ==
    [ name |-> << "s" >>, type |-> "ss", server |-> << "h" >>, port |-> 443,
      uuid |-> "None", password |-> password, cipher |-> "aes-256-gcm", extra_config |-> NoExtra ]

SsrNode ==
    [ name |-> << "r" >>, type |-> "ssr", server |-> << "h" >>, port |-> 443,
      uuid |-> "None", password |-> "p1", cipher |-> "rc4", extra_config |-> NoExtra ]

WGExtras ==
    { NoExtra, [ has |-> TRUE, wireguard |-> NoWG ] }
    \cup { [ has |-> TRUE,
             wireguard |-> [ private_key |-> a, peer_public_key |-> b, preshared_key |-> "None",
                             allowed_ips |-> << "0.0.0.0/0" >>, address |-> << >> ] ] :
           a \in { "K32", "None" }, b \in { "K32", "None" } }

GenNodes ==
    { TuicNode(u, p) : u \in { "u1", "None", "" }, p \in { "p1", "None" } }
    \cup { WireGuardNode(e) : e \in WGExtras }
    \cup { ShadowsocksNode("p1"), SsrNode }

Generators == { "tuic", "wireguard", "sing-box" }
Formats == { "clash", "sing-box", "v2ray" }

\* the lines of a subscription: scheme, "://", a payload the protocol's parser
\* decodes ("good") or rejects ("bad"), "#", name; texts without "://", with
\* an unsupported scheme, and blank lines
SubscriptionLines ==
    { << "ss", "://", "good", "#", "n1" >>,
      << "VMESS", "://", "good", "#", "n2" >>,
      << "trojan", "://", "bad", "#", "n3" >>,
      << "http", "://", "good", "#", "n4" >>,
      << " ", "garbage", " " >>,
      << " " >> }

supported_protocols ==
    { "ss", "ssr", "vmess", "vless", "trojan", "hysteria", "hysteria2", "tuic", "wireguard" }

\* the protocol parsers (_parse_ss, _parse_vmess, ...): the node of a line
\* whose payload decodes, None otherwise (each catches its own exceptions)
NoNode == [ none |-> TRUE ]
ProtocolParse(protocol, line) ==
    IF Len(line) >= 5 /\ line[3] = "good"
    THEN [ none |-> FALSE, name |-> << line[5] >>, type |-> protocol ]
    ELSE NoNode

\* SubscriptionParser._parse_node_line
parse_node_line(line) ==
    IF ~Contains(line, "://") THEN NoNode
    ELSE LET protocol == Lower(SplitAll(line, "://")[1][1])
         IN  IF protocol \in supported_protocols THEN ProtocolParse(protocol, line) ELSE NoNode

RECURSIVE ParseLines(_)
\* the loop of parse_subscription over the lines
ParseLines(lines) ==
    IF lines = << >> THEN << >>
    ELSE LET line == Strip(lines[1])
             node == IF line = << >> THEN NoNode ELSE parse_node_line(line)
         IN  (IF node.none THEN << >> ELSE << node >>) \o ParseLines(Tail(lines))

\* SubscriptionParser.parse_subscription for a subscription given as a list of
\* links, base64-wrapped or not (base64 text decodes to the lines; for plain
\* text the decoding raises and the text is used as it is)
parse_subscription(content) == ParseLines(content.lines)

CodecArgs ==
    [ op : { "generate_proxy_config" }, generator : Generators, node : GenNodes, format_type : Formats ]
    \cup [ op : { "generate_full_config" }, nodes : SeqsUpTo(GenNodes, MaxGenNodes) ]
    \cup [ op : { "generate_wg_config" }, node : { WireGuardNode(e) : e \in WGExtras } ]
    \cup [ op : { "parse_subscription" },
           content : [ base64 : BOOLEAN, lines : SeqsUpTo(SubscriptionLines, MaxLines) ] ]

InitCodec ==
    /\ args \in CodecArgs
    /\ result = << >>
    /\ pc = "call"
    /\ RegistryIdle
    /\ RealityIdle
    /\ ObjectIdle

GenerateProxyConfig ==
    /\ pc = "call" /\ args.op = "generate_proxy_config"
    /\ result' = Returned(CASE args.generator = "tuic" -> tuic_generate_proxy_config(args.node, args.format_type)
                            [] args.generator = "wireguard" -> wg_generate_proxy_config(args.node, args.format_type)
                            [] args.generator = "sing-box" -> singbox_generate_proxy_config(args.node, args.format_type))
    /\ pc' = "done"
    /\ UNCHANGED <<args, registryVars, realityVars, objectVars>>

GenerateFullConfig ==
    /\ pc = "call" /\ args.op = "generate_full_config"
    /\ result' = Returned(generate_full_config(args.nodes))
    /\ pc' = "done"
    /\ UNCHANGED <<args, registryVars, realityVars, objectVars>>

GenerateWgConfig ==
    /\ pc = "call" /\ args.op = "generate_wg_config"
    /\ result' = generate_wg_config(args.node)
    /\ pc' = "done"
    /\ UNCHANGED <<args, registryVars, realityVars, objectVars>>

ParseSubscription ==
    /\ pc = "call" /\ args.op = "parse_subscription"
    /\ result' = Returned(parse_subscription(args.content))
    /\ pc' = "done"
    /\ UNCHANGED <<args, registryVars, realityVars, objectVars>>

NextCodec == GenerateProxyConfig \/ GenerateFullConfig \/ GenerateWgConfig \/ ParseSubscription

SpecCodec == InitCodec /\ [][NextCodec]_vars

\* the generator accepts the protocol of the node
Accepts(generator, node) ==
    CASE generator = "tuic" -> node.type \in { "tuic", "tuic4", "tuic5" }
      [] generator = "wireguard" -> node.type \in { "wireguard", "wg" }
      [] generator = "sing-box" -> node.type \in SingBoxProtocols

\* the node lacks a field its protocol requires
LacksRequired(node) ==
    \/ node.type = "tuic" /\ (node.uuid = "None" \/ node.password = "None")
    \/ node.type = "wireguard"
       /\ (~node.extra_config.has
           \/ node.extra_config.wireguard.private_key = "None"
           \/ node.extra_config.wireguard.peer_public_key = "None")

\* C8: for every generator that accepts the node's protocol, generating a
\* config for a node that lacks a protocol-required field (TUIC: uuid or
\* password; WireGuard: private key or peer public key) returns a failure
\* result, never a success carrying a partially-filled config.
C8_RequiredFields ==
    (pc = "done" /\ args.op = "generate_proxy_config"
        /\ Accepts(args.generator, args.node) /\ LacksRequired(args.node)) =>
        ~result.value.success

\* the nodes of a list whose own generation succeeds, in order
RECURSIVE GeneratedTags(_)
GeneratedTags(nodes) ==
    IF nodes = << >> THEN << >>
    ELSE (IF singbox_generate_proxy_config(nodes[1], "sing-box").success THEN << nodes[1].name >> ELSE << >>)
         \o GeneratedTags(Tail(nodes))

\* the names of the lines of a subscription that parse, in order
RECURSIVE ParsedNames(_)
ParsedNames(lines) ==
    IF lines = << >> THEN << >>
    ELSE (IF Strip(lines[1]) # << >> /\ ~parse_node_line(Strip(lines[1])).none
          THEN << parse_node_line(Strip(lines[1])).name >> ELSE << >>)
         \o ParsedNames(Tail(lines))

\* C9: no parse or generate operation throws: every fatal condition comes back
\* as a failure result; parse_subscription returns, in input order, the nodes
\* of exactly the lines that parse, and generate_full_config skips the nodes
\* whose generation fails.
C9_NothingThrown ==
    pc = "done" =>
        /\ ~result.raised
        /\ args.op = "parse_subscription" =>
              [ i \in 1..Len(result.value) |-> result.value[i].name ] = ParsedNames(args.content.lines)
        /\ (args.op = "generate_full_config" /\ result.value.success) =>
              result.value.config.node_tags = GeneratedTags(args.nodes)

(***************************************************************************)
(* VlessRealityConfigGenerator: one generator object, called repeatedly.   *)
(* genNode is the instance attribute self.node (absent on a fresh object); *)
(* genLog is the last call made on the object with the answer it returned. *)
(***************************************************************************)

\* the reality dictionary of extra_config; "None" marks an absent key
NoRealityDict ==
    [ public_key |-> "None", short_id |-> "None", server_name |-> "None", fingerprint |-> "None" ]

\* dict.get(key, default)
DictGet(v, default) == IF v = "None" THEN default ELSE v

\* hasattr(self, 'node') is false until generate_proxy_config has run
NoStoredNode == [ set |-> FALSE ]

\* VlessRealityConfigGenerator.supports_protocol
supports_protocol(stored, protocol_name) ==
    /\ Lower(protocol_name) = "vless"
    /\ stored.set
    /\ stored.node.extra_config.has
    /\ stored.node.extra_config.has_reality

\* VlessRealityConfigGenerator.get_default_options
get_default_options(format_type) ==
    CASE format_type = "clash-meta" -> [ udp |-> TRUE, tls |-> TRUE, client_fingerprint |-> "chrome" ]
      [] format_type = "sing-box" -> [ type |-> "vless", tls_enabled |-> TRUE, tls_type |-> "reality" ]
      [] format_type = "xray" -> [ protocol |-> "vless", security |-> "reality" ]
      [] OTHER -> << >>

\* hasattr(node, 'extra_config') and node.extra_config.get('reality'): the
\* attribute exists and the reality dictionary has at least one entry
HasRealityConfig(node) ==
    /\ node.extra_config.has
    /\ node.extra_config.has_reality
    /\ node.extra_config.reality # NoRealityDict

\* VlessRealityConfigGenerator._generate_clash_meta_config (tcp transport)
reality_generate_clash_meta_config(node, options) ==
    LET reality_config == node.extra_config.reality
        reality_opts == ("public-key" :> reality_config.public_key)
                        @@ (IF Given(reality_config.short_id)
                            THEN "short-id" :> reality_config.short_id ELSE << >>)
        servername == IF Given(node.sni) THEN "servername" :> node.sni
                      ELSE IF Given(reality_config.server_name)
                           THEN "servername" :> reality_config.server_name ELSE << >>
        flow == IF Given(node.extra_config.flow) THEN "flow" :> node.extra_config.flow ELSE << >>
    IN  filter_none_values(
            [ name |-> node.name, type |-> "vless", server |-> node.server, port |-> node.port,
              uuid |-> node.uuid, tls |-> TRUE, udp |-> options.udp, network |-> node.network ]
            @@ ("reality-opts" :> reality_opts) @@ servername
            @@ ("client-fingerprint" :> DictGet(reality_config.fingerprint, options.client_fingerprint))
            @@ flow,
            { "uuid", "network" })

\* VlessRealityConfigGenerator._generate_sing_box_config (tcp transport)
reality_generate_sing_box_config(node, options) ==
    LET reality_config == node.extra_config.reality
        reality == [ enabled |-> TRUE, public_key |-> reality_config.public_key ]
                   @@ (IF Given(reality_config.short_id)
                       THEN [ short_id |-> reality_config.short_id ] ELSE << >>)
        tls_config == [ enabled |-> TRUE,
                        server_name |-> IF Given(node.sni) THEN node.sni
                                        ELSE DictGet(reality_config.server_name, node.server),
                        reality |-> reality,
                        utls |-> [ enabled |-> TRUE,
                                   fingerprint |-> DictGet(reality_config.fingerprint, "chrome") ] ]
    IN  filter_none_values(
            [ type |-> "vless", tag |-> node.name, server |-> node.server, server_port |-> node.port,
              uuid |-> node.uuid, tls |-> tls_config ],
            { "uuid" })

\* VlessRealityConfigGenerator._generate_xray_config (tcp transport)
reality_generate_xray_config(node, options) ==
    LET reality_config == node.extra_config.reality
        user == [ id |-> node.uuid, encryption |-> "none" ]
                @@ (IF Given(node.extra_config.flow) THEN [ flow |-> node.extra_config.flow ] ELSE << >>)
        realitySettings ==
            [ serverName |-> IF Given(node.sni) THEN node.sni
                             ELSE DictGet(reality_config.server_name, node.server),
              publicKey |-> reality_config.public_key,
              fingerprint |-> DictGet(reality_config.fingerprint, "chrome") ]
            @@ (IF Given(reality_config.short_id) THEN [ shortId |-> reality_config.short_id ] ELSE << >>)
    IN  [ tag |-> node.name, protocol |-> "vless",
          settings |-> [ vnext |-> << [ address |-> node.server, port |-> node.port,
                                        users |-> << user >> ] >> ],
          streamSettings |-> [ network |-> node.network, security |-> "reality",
                               realitySettings |-> realitySettings ] ]

\* VlessRealityConfigGenerator.generate_proxy_config: the returned result
reality_generate_proxy_config(node, format_type) ==
    IF node.type # "vless" THEN GenError("unsupported protocol")
    ELSE IF ~HasRealityConfig(node) THEN GenError("not a reality config")
    ELSE IF validate_required_fields(node, { "name", "server", "port", "uuid" }) # { }
         THEN GenError("validation failed")
    ELSE IF ~Given(node.extra_config.reality.public_key) THEN GenError("missing public key")
    ELSE LET merged_options == get_default_options(format_type)
             warnings == IF ~Given(node.extra_config.reality.server_name) /\ ~Given(node.sni)
                         THEN << "sni recommended" >> ELSE << >>
         IN  IF format_type = "clash-meta"
             THEN GenSuccess(reality_generate_clash_meta_config(node, merged_options), warnings)
             ELSE IF format_type = "sing-box"
             THEN GenSuccess(reality_generate_sing_box_config(node, merged_options), warnings)
             ELSE IF format_type = "xray"
             THEN GenSuccess(reality_generate_xray_config(node, merged_options), warnings)
             ELSE GenError("unsupported format")

\* the nodes and formats handed to the generator
RealityExtras ==
    { NoExtra,
      [ has |-> TRUE, has_reality |-> FALSE, reality |-> NoRealityDict, flow |-> "None" ],
      [ has |-> TRUE, has_reality |-> TRUE, reality |-> NoRealityDict, flow |-> "None" ] }
    \cup { [ has |-> TRUE, has_reality |-> TRUE,
             reality |-> [ public_key |-> pk, short_id |-> sid, server_name |-> sn,
                           fingerprint |-> "chrome" ],
             flow |-> fl ] :
           pk \in { "PK", "None" }, sid \in { "ab", "None" },
           sn \in { "s.example", "None" }, fl \in { "xtls-rprx-vision", "None" } }

VlessNode(uuid, sni, extra) ==
    [ name |-> << "v" >>, type |-> "vless", server |-> << "h" >>, port |-> 443,
      uuid |-> uuid, password |-> "None", cipher |-> "None", sni |-> sni, network |-> "tcp",
      extra_config |-> extra ]

RealityNodes ==
    { VlessNode(u, s, e) : u \in { "u1", "None" }, s \in { "sni.example", "None" }, e \in RealityExtras }
    \cup { [ name |-> << "s" >>, type |-> "ss", server |-> << "h" >>, port |-> 443,
             uuid |-> "None", password |-> "p1", cipher |-> "aes-256-gcm", sni |-> "None",
             network |-> "tcp", extra_config |-> NoExtra ] }

RealityFormats == { "clash-meta", "sing-box", "xray", "clash" }

ProtocolNames == { "vless", "VLESS", "tuic" }

\* a freshly constructed generator, no call made yet
InitReality ==
    /\ PureIdle
    /\ RegistryIdle
    /\ genNode = NoStoredNode
    /\ genLog = [ op |-> "none" ]
    /\ ObjectIdle

\* generator.generate_proxy_config(node, format_type): the node is stored on
\* the object before anything is checked, then the result is computed
RealityGenerateProxyConfig(node, format_type) ==
    /\ genNode' = [ set |-> TRUE, node |-> node ]
    /\ genLog' = [ op |-> "generate_proxy_config", node |-> node, format_type |-> format_type,
                   result |-> reality_generate_proxy_config(node, format_type) ]
    /\ UNCHANGED <<pureVars, registryVars, objectVars>>

\* generator.supports_protocol(protocol_name)
SupportsProtocol(protocol_name) ==
    /\ genLog' = [ op |-> "supports_protocol", protocol_name |-> protocol_name,
                   result |-> supports_protocol(genNode, protocol_name) ]
    /\ UNCHANGED <<genNode, pureVars, registryVars, objectVars>>

NextReality ==
    \/ \E node \in RealityNodes, format_type \in RealityFormats :
           RealityGenerateProxyConfig(node, format_type)
    \/ \E protocol_name \in ProtocolNames : SupportsProtocol(protocol_name)

SpecReality == InitReality /\ [][NextReality]_vars

MaxParams == 2

\* one name=value piece of a query string
Param(name, value) == << name, "=" >> \o value

RECURSIVE JoinWith(_, _)
\* sep.join(pieces)
JoinWith(pieces, sep) ==
    IF pieces = << >> THEN << >>
    ELSE IF Len(pieces) = 1 THEN pieces[1]
    ELSE pieces[1] \o << sep >> \o JoinWith(Tail(pieces), sep)

RECURSIVE QslPairs(_)
\* urllib.parse.parse_qsl over the pieces between "&": a piece without "=" or
\* with a blank value is dropped (keep_blank_values is off)
QslPairs(pieces) ==
    IF pieces = << >> THEN << >>
    ELSE LET nv == SplitOnce(pieces[1], "=")
         IN  (IF Len(nv) = 2 /\ nv[2] # << >> THEN << [ name |-> nv[1], value |-> nv[2] ] >> ELSE << >>)
             \o QslPairs(Tail(pieces))

\* BaseProtocolParser._parse_query_params: dict(parse_qsl(query_string))
parse_query_params(query_string) ==
    IF query_string = << >> THEN << >> ELSE QslPairs(SplitAll(query_string, "&"))

\* key in params
ParamsHas(params, key) == \E i \in 1..Len(params) : params[i].name = << key >>

\* params.get(key): the value of the last pair with that name, the empty text
\* standing for None (a blank value is never stored)
ParamsGet(params, key) ==
    IF ~ParamsHas(params, key) THEN << >>
    ELSE params[CHOOSE i \in 1..Len(params) :
                    /\ params[i].name = << key >>
                    /\ \A j \in (i + 1)..Len(params) : params[j].name # << key >>].value

\* BaseProtocolParser.can_parse
base_can_parse(url, schemes) ==
    /\ Contains(url, "://")
    /\ \E k \in 1..Len(schemes) : schemes[k] = LowerSeq(SplitAll(url, "://")[1])

\* VlessRealityParser.can_parse: the parameters are read from everything
\* after the first "?" of the whole URL
reality_can_parse(url) ==
    /\ base_can_parse(url, protocol_schemes("vless-reality"))
    /\ LET params == parse_query_params(IF Contains(url, "?") THEN SplitOnce(url, "?")[2] ELSE << >>)
       IN  \/ ParamsGet(params, "security") = << "reality" >>
           \/ ParamsGet(params, "type") = << "reality" >>
           \/ ParamsHas(params, "pbk")
           \/ ParamsHas(params, "publicKey")

\* register_vless_reality_support on the empty registry
RealityRegistry == BindFrom(<< >>, protocol_schemes("vless-reality"), 1, [ cls |-> "vless-reality", id |-> 1 ])

\* SubscriptionParser._parse_node_line for a link with a host: the protocol
\* table sends every vless link to _parse_vless, which builds a node
plain_vless_parses(url) ==
    /\ Contains(url, "://")
    /\ LowerSeq(SplitAll(url, "://")[1]) = << "vless" >>

\* urllib.parse.urlparse(url).query: the text between the first "?" and the
\* "#" that starts the fragment
UrlQuery(url) ==
    LET noFragment == SplitOnce(url, "#")[1]
    IN  IF Contains(noFragment, "?") THEN SplitOnce(noFragment, "?")[2] ELSE << >>

VlessParams ==
    { Param("security", << "reality" >>), Param("security", << "tls" >>),
      Param("type", << "reality" >>), Param("type", << "tcp" >>),
      Param("pbk", << "K" >>), Param("pbk", << >>), Param("publicKey", << "K" >>),
      Param("pk", << "K" >>) }

VlessFragments == { << >>, << "#", "n" >>, << "#", "n", "?", "pbk", "=", "K" >> }

VlessUrls ==
    { << scheme, "://", "u", "@", "h" >>
      \o (IF q = << >> THEN << >> ELSE << "?" >> \o JoinWith(q, "&")) \o f :
        scheme \in { "vless", "VLESS", "ss" }, q \in SeqsUpTo(VlessParams, MaxParams), f \in VlessFragments }

InitVless ==
    /\ args \in [ op : { "can_parse", "get_parser", "parse_node_line" }, url : VlessUrls ]
    /\ result = << >>
    /\ pc = "call"
    /\ RegistryIdle
    /\ RealityIdle
    /\ ObjectIdle

\* VlessRealityParser().can_parse(url)
RealityCanParse ==
    /\ pc = "call" /\ args.op = "can_parse"
    /\ result' = [ claimed |-> reality_can_parse(args.url) ]
    /\ pc' = "done"
    /\ UNCHANGED <<args, registryVars, realityVars, objectVars>>

\* protocol_registry.get_parser(url) after register_vless_reality_support()
RealityGetParser ==
    /\ pc = "call" /\ args.op = "get_parser"
    /\ result' = [ parser |-> get_parser(RealityRegistry, args.url) ]
    /\ pc' = "done"
    /\ UNCHANGED <<args, registryVars, realityVars, objectVars>>

\* SubscriptionParser()._parse_node_line(url)
PlainParseNodeLine ==
    /\ pc = "call" /\ args.op = "parse_node_line"
    /\ result' = [ parsed |-> plain_vless_parses(args.url) ]
    /\ pc' = "done"
    /\ UNCHANGED <<args, registryVars, realityVars, objectVars>>

NextVless == RealityCanParse \/ RealityGetParser \/ PlainParseNodeLine

SpecVless == InitVless /\ [][NextVless]_vars

\* the query names the parameter, with or without a value
QueryNames(query, key) ==
    \E i \in 1..Len(SplitAll(query, "&")) : SplitOnce(SplitAll(query, "&")[i], "=")[1] = << key >>

\* the link carries security=reality or a public-key parameter (pbk,
\* publicKey or pk) in its query
CarriesReality(url) ==
    \/ ParamsGet(parse_query_params(UrlQuery(url)), "security") = << "reality" >>
    \/ \E key \in { "pbk", "publicKey", "pk" } : QueryNames(UrlQuery(url), key)

\* C11: the Reality parser claims a vless link only if the link carries
\* security=reality or a public-key parameter, and a link carrying neither
\* is not handed to the Reality parser by the registry either, so an
\* ordinary link is claimed by the plain VLESS parser alone.
C11_OrdinaryLinkNotClaimed ==
    (pc = "done" /\ ~CarriesReality(args.url)) =>
        /\ args.op = "can_parse" => ~result.claimed
        /\ args.op = "get_parser" => result.parser.cls # "vless-reality"

(***************************************************************************)
(* TuicParser.parse_url / parse_clash_config, Hysteria2Parser.parse_url    *)
(* and TuicConfigGenerator.generate_proxy_config, with the results as the  *)
(* constructors of ParseResult and ConfigGenerationResult fill them.       *)
(***************************************************************************)

\* ParseResult(error=...): success False, node None, no warnings
ParseFailure(error) ==
    [ success |-> FALSE, node |-> NoNode, error |-> error, warnings |-> << >> ]

\* mutant: a result that gathered warnings is returned as a failure
ParseSuccess_warnings_fatal(node, warnings) ==
    IF warnings # << >>
    THEN [ success |-> FALSE, node |-> NoNode, error |-> "warnings", warnings |-> warnings ]
    ELSE [ success |-> TRUE, node |-> node, error |-> "None", warnings |-> warnings ]

\* ParseResult(success=True, node=node, warnings=warnings): error None
ParseSuccess(node, warnings) ==
    [ success |-> TRUE, node |-> node, error |-> "None", warnings |-> warnings ]

\* int(text) for the texts used as ports: the value, or invalid
IntOfText(text) ==
    CASE text = "0" -> [ ok |-> TRUE, v |-> 0 ]
      [] text = "1" -> [ ok |-> TRUE, v |-> 1 ]
      [] text = "443" -> [ ok |-> TRUE, v |-> 443 ]
      [] text = "8443" -> [ ok |-> TRUE, v |-> 8443 ]
      [] text = "65535" -> [ ok |-> TRUE, v |-> 65535 ]
      [] text = "65536" -> [ ok |-> TRUE, v |-> 65536 ]
      [] text = "70000" -> [ ok |-> TRUE, v |-> 70000 ]
      [] OTHER -> [ ok |-> FALSE, v |-> 0 ]

\* urllib.parse.urlparse(url).port: None (0 here) when the URL has no port,
\* ValueError when the port is not a number or lies outside 0..65535
UrlPort(text) ==
    IF text = "None" THEN [ raised |-> FALSE, v |-> 0 ]
    ELSE IF IntOfText(text).ok /\ IntOfText(text).v <= 65535
         THEN [ raised |-> FALSE, v |-> IntOfText(text).v ]
         ELSE [ raised |-> TRUE, v |-> 0 ]

\* BaseProtocolParser._safe_int: int(value) if value else default, the
\* default again when int() raises
safe_int(value, default) ==
    CASE value.t = "none" -> default
      [] value.t = "int"  -> IF value.v = 0 THEN default ELSE value.v
      [] value.t = "str"  -> IF value.s = "" THEN default
                             ELSE IF IntOfText(value.s).ok THEN IntOfText(value.s).v ELSE default

\* uuid.UUID(text) accepts the text
IsUuid(text) == text \in { "U1", "U2" }

\* TuicParser.detect_version: the scheme text is matched as written, then
\* the version (or v) parameter, then the default
tuic_detect_version(url) ==
    IF url.scheme = "tuic5" THEN "v5"
    ELSE IF url.scheme = "tuic4" THEN "v4"
    ELSE IF url.version = "5" THEN "v5"
    ELSE IF url.version = "4" THEN "v4"
    ELSE "v5"

\* f"{hostname}:{port}"
HostPort(hostname, port) == hostname \o << ":", port >>

\* TuicParser.parse_url; url holds the parts urlparse and parse_qsl extract
tuic_parse_url(url, extra_ok) ==
    IF Lower(url.scheme) \notin { "tuic", "tuic4", "tuic5" } THEN ParseFailure("unsupported scheme")
    ELSE IF UrlPort(url.port).raised THEN ParseFailure("exception")
    ELSE IF url.hostname = << >> THEN ParseFailure("missing server")
    ELSE
    LET port == IF UrlPort(url.port).v = 0 THEN 443 ELSE UrlPort(url.port).v
        version == tuic_detect_version(url)
        inAuth == Given(url.username) /\ Given(url.password)
        inQuery == ~inAuth /\ Given(url.uuid) /\ Given(url.password_param)
        tuic_uuid == IF inAuth THEN url.username ELSE IF inQuery THEN url.uuid ELSE "None"
        tuic_password == IF inAuth THEN url.password ELSE IF inQuery THEN url.password_param ELSE "None"
    IN  IF Given(tuic_uuid) /\ ~IsUuid(tuic_uuid) THEN ParseFailure("invalid uuid")
        ELSE IF ~extra_ok THEN ParseFailure("exception")
        ELSE LET node == [ none |-> FALSE,
                           name |-> IF url.fragment # << >> THEN url.fragment ELSE HostPort(url.hostname, port),
                           type |-> "tuic", server |-> url.hostname, port |-> port,
                           uuid |-> tuic_uuid, password |-> tuic_password, auth_str |-> "None",
                           sni |-> IF url.sni # << >> THEN url.sni ELSE url.hostname,
                           extra_config |->
                               [ has |-> TRUE, congestion_control |-> "cubic", version |-> version ]
                               @@ (IF version = "v5" THEN [ udp_relay_mode |-> "native" ] ELSE << >>) ]
             IN  ParseSuccess(node,
                     validate_node(node)
                     \o (IF ~Given(tuic_uuid) THEN << "missing uuid" >> ELSE << >>)
                     \o (IF ~Given(tuic_password) THEN << "missing password" >> ELSE << >>))

\* TuicParser.parse_clash_config
tuic_parse_clash_config(config, extra_ok) ==
    IF config.type # "tuic" THEN ParseFailure("type is not tuic")
    ELSE IF config.server = << >> THEN ParseFailure("missing server")
    ELSE IF ~extra_ok THEN ParseFailure("exception")
    ELSE LET node == [ none |-> FALSE, name |-> config.name, type |-> "tuic", server |-> config.server,
                       port |-> safe_int(config.port, 443),
                       uuid |-> IF config.uuid # "None" THEN config.uuid ELSE config.token,
                       password |-> config.password, auth_str |-> "None", sni |-> config.server,
                       extra_config |->
                           [ has |-> TRUE,
                             version |-> IF config.version \in { "None", "int5" } THEN "v5" ELSE "v4" ] ]
         IN  ParseSuccess(node, validate_node(node))

\* Hysteria2Parser.parse_url
hysteria2_parse_url(url, extra_ok) ==
    IF Lower(url.scheme) \notin { "hysteria2", "hy2" } THEN ParseFailure("unsupported scheme")
    ELSE IF UrlPort(url.port).raised THEN ParseFailure("exception")
    ELSE IF url.hostname = << >> THEN ParseFailure("missing server")
    ELSE
    LET port == IF UrlPort(url.port).v = 0 THEN 443 ELSE UrlPort(url.port).v
        auth_str == IF Given(url.username) THEN url.username
                    ELSE IF Given(url.auth) THEN url.auth
                    ELSE IF Given(url.password_param) THEN url.password_param ELSE "None"
    IN  IF Given(url.obfs) /\ ~extra_ok THEN ParseFailure("exception")
        ELSE LET node == [ none |-> FALSE,
                           name |-> IF url.fragment # << >> THEN url.fragment ELSE HostPort(url.hostname, port),
                           type |-> "hysteria2", server |-> url.hostname, port |-> port,
                           uuid |-> "None", password |-> "None", auth_str |-> auth_str,
                           sni |-> IF url.sni # << >> THEN url.sni ELSE url.hostname,
                           extra_config |->
                               IF Given(url.obfs)
                               THEN [ has |-> TRUE, obfs |-> [ type |-> url.obfs, password |-> "None" ] ]
                               ELSE NoExtra ]
             IN  ParseSuccess(node,
                     validate_node(node)
                     \o (IF ~Given(auth_str) THEN << "missing auth" >> ELSE << >>))

\* Hysteria2Parser.parse_clash_config
hysteria2_parse_clash_config(config, extra_ok) ==
    IF config.type # "hysteria2" THEN ParseFailure("type is not hysteria2")
    ELSE IF config.server = << >> THEN ParseFailure("missing server")
    ELSE IF Given(config.obfs) /\ ~extra_ok THEN ParseFailure("exception")
    ELSE LET node == [ none |-> FALSE, name |-> config.name, type |-> "hysteria2",
                       server |-> config.server, port |-> safe_int(config.port, 443),
                       uuid |-> "None", password |-> "None",
                       auth_str |-> IF Given(config.auth) THEN config.auth
                                    ELSE IF Given(config.auth_str) THEN config.auth_str
                                    ELSE IF Given(config.password) THEN config.password ELSE "None",
                       sni |-> config.server,
                       extra_config |-> IF Given(config.obfs)
                                        THEN [ has |-> TRUE, obfs |-> config.obfs ] ELSE NoExtra ]
         IN  ParseSuccess(node, validate_node(node))

\* config=None
NoConfig == [ none |-> TRUE ]

\* ConfigGenerationResult as its constructor fills it: config None on a
\* failure, error None and the warnings on a success
FullGenResult(r) ==
    IF r.success
    THEN [ success |-> TRUE, config |-> r.config, error |-> "None", warnings |-> r.warnings ]
    ELSE [ success |-> FALSE, config |-> NoConfig, error |-> r.error, warnings |-> << >> ]

\* the inputs of the parsers
UrlPortTexts == { "None", "0", "8443", "65536", "abc" }

MapPorts ==
    { [ t |-> "none" ] }
    \cup { [ t |-> "int", v |-> v ] : v \in { 0, 443, 65535, 65536, 70000, -1 } }
    \cup { [ t |-> "str", s |-> x ] : x \in { "8443", "0", "abc", "" } }

TuicUrls ==
    [ scheme : { "tuic", "tuic4", "Tuic5", "ss" }, username : { "U1", "bad", "None" },
      password : { "p1", "None" }, hostname : { << "h" >>, << >> }, port : UrlPortTexts,
      uuid : { "U2", "None" }, password_param : { "p2", "None" }, version : { "4", "None" },
      sni : { << >> }, fragment : { << "n" >>, << >> } ]

TuicMaps ==
    [ type : { "tuic", "ss" }, name : { << "t" >>, << >> }, server : { << "h" >>, << >> },
      port : MapPorts, uuid : { "U1", "None" }, token : { "tok", "None" },
      password : { "p1", "None" }, version : { "None", "int5", "int4" } ]

Hysteria2Urls ==
    [ scheme : { "hysteria2", "hy2", "ss" }, username : { "a1", "None" }, auth : { "a2", "None" },
      password_param : { "p2", "None" }, hostname : { << "h" >>, << >> }, port : UrlPortTexts,
      obfs : { "salamander", "None" }, sni : { << >>, << "s" >> }, fragment : { << "n" >>, << >> } ]

Hysteria2Maps ==
    [ type : { "hysteria2", "tuic" }, name : { << "y" >>, << >> }, server : { << "h" >>, << >> },
      port : MapPorts, auth : { "a1", "None" }, auth_str : { "a2", "None" },
      password : { "p1", "None" }, obfs : { "salamander", "None" } ]

ParserArgs ==
    [ op : { "tuic.parse_url" }, url : TuicUrls, extra_ok : BOOLEAN ]
    \cup [ op : { "tuic.parse_clash_config" }, config : TuicMaps, extra_ok : BOOLEAN ]
    \cup [ op : { "hysteria2.parse_url" }, url : Hysteria2Urls, extra_ok : BOOLEAN ]
    \cup [ op : { "hysteria2.parse_clash_config" }, config : Hysteria2Maps, extra_ok : BOOLEAN ]
    \cup [ op : { "tuic.generate_proxy_config" }, node : GenNodes, format_type : Formats ]

InitParsers ==
    /\ args \in ParserArgs
    /\ result = << >>
    /\ pc = "call"
    /\ RegistryIdle
    /\ RealityIdle
    /\ ObjectIdle

TuicParseUrl ==
    /\ pc = "call" /\ args.op = "tuic.parse_url"
    /\ result' = tuic_parse_url(args.url, args.extra_ok)
    /\ pc' = "done"
    /\ UNCHANGED <<args, registryVars, realityVars, objectVars>>

TuicParseClashConfig ==
    /\ pc = "call" /\ args.op = "tuic.parse_clash_config"
    /\ result' = tuic_parse_clash_config(args.config, args.extra_ok)
    /\ pc' = "done"
    /\ UNCHANGED <<args, registryVars, realityVars, objectVars>>

Hysteria2ParseUrl ==
    /\ pc = "call" /\ args.op = "hysteria2.parse_url"
    /\ result' = hysteria2_parse_url(args.url, args.extra_ok)
    /\ pc' = "done"
    /\ UNCHANGED <<args, registryVars, realityVars, objectVars>>

Hysteria2ParseClashConfig ==
    /\ pc = "call" /\ args.op = "hysteria2.parse_clash_config"
    /\ result' = hysteria2_parse_clash_config(args.config, args.extra_ok)
    /\ pc' = "done"
    /\ UNCHANGED <<args, registryVars, realityVars, objectVars>>

TuicGenerateProxyConfig ==
    /\ pc = "call" /\ args.op = "tuic.generate_proxy_config"
    /\ result' = FullGenResult(tuic_generate_proxy_config(args.node, args.format_type))
    /\ pc' = "done"
    /\ UNCHANGED <<args, registryVars, realityVars, objectVars>>

NextParsers ==
    \/ TuicParseUrl \/ TuicParseClashConfig
    \/ Hysteria2ParseUrl \/ Hysteria2ParseClashConfig
    \/ TuicGenerateProxyConfig

SpecParsers == InitParsers /\ [][NextParsers]_vars

ParseOps ==
    { "tuic.parse_url", "tuic.parse_clash_config", "hysteria2.parse_url", "hysteria2.parse_clash_config" }

\* C12: every node a parser produces, from a URI or from a Clash-style map,
\* has a port within 1..65535.
C12_PortInRange ==
    (pc = "done" /\ args.op \in ParseOps /\ result.success) =>
        (1 <= result.node.port /\ result.node.port <= 65535)

\* the same input with the credentials a warning reports as missing filled in
WithCredentials(a) ==
    CASE a.op = "tuic.parse_url" ->
             [ a EXCEPT !.url = [ a.url EXCEPT !.username = "U1", !.password = "p1" ] ]
      [] a.op = "hysteria2.parse_url" -> [ a EXCEPT !.url = [ a.url EXCEPT !.username = "a1" ] ]
      [] a.op \in { "tuic.parse_clash_config", "hysteria2.parse_clash_config" } ->
             [ a EXCEPT !.config = [ a.config EXCEPT !.port = [ t |-> "int", v |-> 443 ],
                                                     !.name = << "t" >> ] ]
      [] a.op = "tuic.generate_proxy_config" ->
             [ a EXCEPT !.node = [ a.node EXCEPT !.uuid = "u1", !.password = "p1" ] ]

\* the result of the operation named by the arguments
ResultOf(a) ==
    CASE a.op = "tuic.parse_url" -> tuic_parse_url(a.url, a.extra_ok)
      [] a.op = "hysteria2.parse_url" -> hysteria2_parse_url(a.url, a.extra_ok)
      [] a.op = "tuic.parse_clash_config" -> tuic_parse_clash_config(a.config, a.extra_ok)
      [] a.op = "hysteria2.parse_clash_config" -> hysteria2_parse_clash_config(a.config, a.extra_ok)
      [] a.op = "tuic.generate_proxy_config" ->
             FullGenResult(tuic_generate_proxy_config(a.node, a.format_type))

\* the input lacks nothing but what a warning reports: credentials in a TUIC
\* or Hysteria2 link, a name or a port in range in a map, a non-empty
\* uuid or password in a node handed to the TUIC generator
OnlyWarningsApart(a) ==
    CASE a.op = "tuic.parse_url" -> ~Given(a.url.username) \/ a.url.username = "U1"
      [] a.op = "hysteria2.parse_url" -> TRUE
      [] a.op \in { "tuic.parse_clash_config", "hysteria2.parse_clash_config" } -> TRUE
      [] a.op = "tuic.generate_proxy_config" -> a.node.uuid # "None" /\ a.node.password # "None"

\* the value is None
IsNone(v) == "none" \in DOMAIN v /\ v.none

MaxRenameRules == 2

\* rename rules: literal patterns, one that grows the name, an anchored one,
\* an alternation, an empty pattern, an empty replacement, a pattern that
\* does not compile and a rule without a comma
RenameRuleTexts ==
    { << "a", ",", "b" >>, << "b", ",", "c" >>, << "b", ",", "a" >>, << "a", ",", "a", "a" >>,
      << "^", "b", ",", "c" >>, << "c", "|", "a", ",", "b" >>, << ",", "x" >>, << "b", "," >>,
      << "(", "a", ",", "x" >>, << "a", "b" >> }

RenameNameLists ==
    { << >> } \cup { << n >> : n \in { << "a" >>, << "A", "b" >>, << "c", "b" >> } }
    \cup { << << "a" >>, << "b", "a" >> >>, << << "b" >>, << "b" >> >>, << << "A" >>, << "c" >> >> }

InitRename ==
    /\ args \in [ nodes : RenameNameLists, rename_rules : SeqsUpTo(RenameRuleTexts, MaxRenameRules) ]
    /\ result = << >>
    /\ pc = "call"
    /\ RegistryIdle
    /\ RealityIdle
    /\ ObjectIdle

\* rule_processor.apply_node_rename(nodes, rename_rules)
ApplyNodeRename ==
    /\ pc = "call"
    /\ result' = apply_node_rename(args.nodes, args.rename_rules)
    /\ pc' = "done"
    /\ UNCHANGED <<args, registryVars, realityVars, objectVars>>

NextRename == ApplyNodeRename

SpecRename == InitRename /\ [][NextRename]_vars

RECURSIVE AfterRules(_, _, _)
\* the name after the first k rules, each applied once to what the rules
\* before it left
AfterRules(rules, name, k) ==
    IF k = 0 THEN name ELSE ApplyRenameRule(rules[k], AfterRules(rules, name, k - 1))

\* C14: apply_node_rename maps every input name to the result of applying
\* each rule once, in list order, each rule to the output of the one before
\* it; the list is not applied again, and with no rules every name maps to
\* itself.
C14_RenameOnceInOrder ==
    pc = "done" =>
        /\ DOMAIN result = Elems(args.nodes)
        /\ \A n \in Elems(args.nodes) : result[n] = AfterRules(args.rename_rules, n, Len(args.rename_rules))
        /\ args.rename_rules = << >> => \A n \in Elems(args.nodes) : result[n] = n

\* rules b->c then a->b: "a" becomes "b" and the list is not applied a second
\* time, which would turn it into "c"
C14_Witness ==
    /\ pc = "done"
    /\ args.rename_rules = << << "b", ",", "c" >>, << "a", ",", "b" >> >>
    /\ << "a" >> \in Elems(args.nodes)
    /\ result[<< "a" >>] = << "b" >>
    /\ AfterRules(args.rename_rules, result[<< "a" >>], 2) = << "c" >>

(***************************************************************************)
(* RuleProcessor.add_emoji_flags, called on a name and again on what it    *)
(* returned                                                                *)
(***************************************************************************)

MaxEmojiLen == 4
MaxTagCalls == 2

\* the characters of the names: region keywords in both cases, a blank, a
\* character no pattern knows, and regional-indicator characters, two of
\* which in a row display as a flag
EmojiChars == { "hk", "US", "jp", " ", "x", "RI_H", "RI_K", "RI_U", "RI_S" }

InitEmoji ==
    /\ args \in [ node_name : SeqsUpTo(EmojiChars, MaxEmojiLen) ]
    /\ result = << >>
    /\ pc = "call"
    /\ RegistryIdle
    /\ RealityIdle
    /\ ObjectIdle

\* add_emoji_flags(node_name), then add_emoji_flags of the returned name
AddEmojiFlags ==
    /\ Len(result) < MaxTagCalls
    /\ result' = Append(result, add_emoji_flags(IF result = << >> THEN args.node_name ELSE Last(result)))
    /\ pc' = "done"
    /\ UNCHANGED <<args, registryVars, realityVars, objectVars>>

NextEmoji == AddEmojiFlags

SpecEmoji == InitEmoji /\ [][NextEmoji]_vars

\* the entries of the table whose pattern matches the name
MatchingEntries(node_name) == { k \in 1..Len(flag_map) : Search(flag_map[k].pattern, node_name) }

\* C15: tagging is idempotent: tagging the tagged name returns it unchanged;
\* the flag is that of the first entry of the table, in table order, whose
\* pattern matches the name: it is put in front of the name unless the name
\* holds it already, and a name no entry matches is returned as it is.
C15_TagIdempotent ==
    /\ Len(result) >= 2 => result[2] = result[1]
    /\ Len(result) >= 1 =>
          IF MatchingEntries(args.node_name) = { } THEN result[1] = args.node_name
          ELSE LET first == CHOOSE k \in MatchingEntries(args.node_name) :
                                \A j \in MatchingEntries(args.node_name) : k <= j
               IN  /\ FlagIn(flag_map[first].flag, result[1])
                   /\ result[1] \in { args.node_name,
                                      flag_map[first].flag \o << " " >> \o args.node_name }

\* a name matching two entries got the flag of the first one, although it
\* held the flag of the second already, and the second call left it alone
C15_Witness ==
    /\ args.node_name = << "RI_U", "RI_S", "US", "hk" >>
    /\ Len(result) = 2
    /\ result[1] = << "RI_H", "RI_K", " ", "RI_U", "RI_S", "US", "hk" >>
    /\ result[2] = result[1]

(***************************************************************************)
(* The per-node structures emitted: SubscriptionConverter.                 *)
(* _convert_node_to_clash, TuicConfigGenerator and                         *)
(* VlessRealityConfigGenerator                                             *)
(***************************************************************************)

\* nodes as SubscriptionParser._parse_clash_proxy builds them from a Clash
\* map: cipher, password and uuid are None when the map has no such key
EmitNodes ==
    { [ name |-> << "s" >>, type |-> "ss", server |-> "example1.com", port |-> 443,
        cipher |-> c, password |-> p, uuid |-> "None", tls |-> FALSE, udp |-> TRUE ] :
      c \in { "aes-256-gcm", "None" }, p \in { "password1", "None" } }
    \cup { VMessNode(<< "v" >>, t) : t \in BOOLEAN }
    \cup { [ VMessNode(<< "v" >>, t) EXCEPT !.uuid = "None", !.cipher = "aes-128-gcm" ] : t \in BOOLEAN }

EmitArgs ==
    [ op : { "convert_node_to_clash" }, node : EmitNodes,
      request : [ udp : BOOLEAN, tfo : BOOLEAN, scv : BOOLEAN ] ]
    \cup [ op : { "tuic.generate_proxy_config" }, node : GenNodes, format_type : Formats ]
    \cup [ op : { "reality.generate_proxy_config" },
           node : RealityNodes \cup { [ n EXCEPT !.network = "None" ] : n \in RealityNodes },
           format_type : RealityFormats ]

InitEmit ==
    /\ args \in EmitArgs
    /\ result = << >>
    /\ pc = "call"
    /\ RegistryIdle
    /\ RealityIdle
    /\ ObjectIdle

\* converter._convert_node_to_clash(node, request)
ConvertNodeToClash ==
    /\ pc = "call" /\ args.op = "convert_node_to_clash"
    /\ result' = [ success |-> TRUE, config |-> convert_node_to_clash(args.node, args.request) ]
    /\ pc' = "done"
    /\ UNCHANGED <<args, registryVars, realityVars, objectVars>>

\* TuicConfigGenerator().generate_proxy_config(node, format_type)
EmitTuicConfig ==
    /\ pc = "call" /\ args.op = "tuic.generate_proxy_config"
    /\ result' = tuic_generate_proxy_config(args.node, args.format_type)
    /\ pc' = "done"
    /\ UNCHANGED <<args, registryVars, realityVars, objectVars>>

\* VlessRealityConfigGenerator().generate_proxy_config(node, format_type)
EmitRealityConfig ==
    /\ pc = "call" /\ args.op = "reality.generate_proxy_config"
    /\ result' = reality_generate_proxy_config(args.node, args.format_type)
    /\ pc' = "done"
    /\ UNCHANGED <<args, registryVars, realityVars, objectVars>>

NextEmit == ConvertNodeToClash \/ EmitTuicConfig \/ EmitRealityConfig

SpecEmit == InitEmit /\ [][NextEmit]_vars

\* the keys whose value is a text or none
TextKeys == { "cipher", "password", "uuid", "network" }

\* no text key of the structure holds none
Sparse(config) == \A k \in DOMAIN config \cap TextKeys : config[k] # "None"

\* C16: every per-node structure emitted omits unset fields: no key, at the
\* top level or nested, holds none.
C16_NoNoneEmitted ==
    (pc = "done" /\ result.success) =>
        /\ Sparse(result.config)
        /\ "streamSettings" \in DOMAIN result.config => Sparse(result.config.streamSettings)

(***************************************************************************)
(* Shadowsocks links: SubscriptionParser.parse_subscription and _parse_ss  *)
(* In this part a text is a sequence of character codes (ASCII), so that   *)
(* base64, percent-encoding and the splitting of the link are computed on  *)
(* the characters themselves.                                              *)
(***************************************************************************)

\* the printable ASCII characters, code 32 first (DQ, BS and BQ stand for
\* the double quote, the backslash and the backquote)
Ascii ==
    << " ", "!", "DQ", "#", "$", "%", "&", "'", "(", ")", "*", "+", ",",
       "-", ".", "/", "0", "1", "2", "3", "4", "5", "6", "7", "8", "9",
       ":", ";", "<", "=", ">", "?", "@", "A", "B", "C", "D", "E", "F",
       "G", "H", "I", "J", "K", "L", "M", "N", "O", "P", "Q", "R", "S",
       "T", "U", "V", "W", "X", "Y", "Z", "[", "BS", "]", "^", "_",
       "BQ", "a", "b", "c", "d", "e", "f", "g", "h", "i", "j", "k", "l",
       "m", "n", "o", "p", "q", "r", "s", "t", "u", "v", "w", "x", "y",
       "z", "{", "|", "}", "~" >>

Code(c) == 31 + CHOOSE i \in 1..Len(Ascii) : Ascii[i] = c

\* the text written as a sequence of characters, as character codes
T(chars) == [ i \in 1..Len(chars) |-> Code(chars[i]) ]

Flatten3(a, b, c) == a \o b \o c

\* str.lower() on ASCII
LowerCodes(s) == [ i \in 1..Len(s) |-> IF s[i] \in 65..90 THEN s[i] + 32 ELSE s[i] ]

\* least element of a non-empty set of numbers
Least(S) == CHOOSE i \in S : \A j \in S : i <= j

\* greatest element of a non-empty set of numbers
Greatest(S) == CHOOSE i \in S : \A j \in S : i >= j

\* s.find(x): least index where the text x occurs in s, 0 when there is none
FindText(s, x, from) ==
    LET hits == { i \in from..(Len(s) - Len(x) + 1) : SubSeq(s, i, i + Len(x) - 1) = x }
    IN  IF hits = { } THEN 0 ELSE Least(hits)

\* least index i >= from with s[i] = c, 0 when there is none
FindCode(s, c, from) ==
    LET hits == { i \in from..Len(s) : s[i] = c }
    IN  IF hits = { } THEN 0 ELSE Least(hits)

\* greatest index i with s[i] = c, 0 when there is none
RFindCode(s, c) ==
    LET hits == { i \in 1..Len(s) : s[i] = c }
    IN  IF hits = { } THEN 0 ELSE Greatest(hits)

\* s.split(c, 1)
SplitAtFirst(s, c) ==
    LET i == FindCode(s, c, 1)
    IN  IF i = 0 THEN << s >> ELSE << SubSeq(s, 1, i - 1), SubSeq(s, i + 1, Len(s)) >>

\* s.startswith(x)
StartsWithText(s, x) == Len(s) >= Len(x) /\ SubSeq(s, 1, Len(x)) = x

Whitespace == { 9, 10, 11, 12, 13, 28, 29, 30, 31, 32 }

RECURSIVE StripCodes(_)
\* str.strip()
StripCodes(s) ==
    IF s = << >> THEN s
    ELSE IF s[1] \in Whitespace THEN StripCodes(Tail(s))
    ELSE IF s[Len(s)] \in Whitespace THEN StripCodes(SubSeq(s, 1, Len(s) - 1))
    ELSE s

\* the base64 alphabet: value of a character, -1 for a character outside it
B64Value(c) ==
    CASE c \in 65..90  -> c - 65
      [] c \in 97..122 -> c - 71
      [] c \in 48..57  -> c + 4
      [] c = 43        -> 62
      [] c = 47        -> 63
      [] OTHER         -> -1

B64Char(v) ==
    CASE v \in 0..25  -> v + 65
      [] v \in 26..51 -> v + 71
      [] v \in 52..61 -> v - 4
      [] v = 62       -> 43
      [] OTHER        -> 47

RECURSIVE b64encode(_)
\* base64.b64encode(bytes): three bytes give four characters, the tail is
\* padded with "="
b64encode(bytes) ==
    IF bytes = << >> THEN << >>
    ELSE IF Len(bytes) = 1
         THEN << B64Char(bytes[1] \div 4), B64Char((bytes[1] % 4) * 16), 61, 61 >>
    ELSE IF Len(bytes) = 2
         THEN << B64Char(bytes[1] \div 4),
                 B64Char((bytes[1] % 4) * 16 + (bytes[2] \div 16)),
                 B64Char((bytes[2] % 16) * 4), 61 >>
    ELSE << B64Char(bytes[1] \div 4),
            B64Char((bytes[1] % 4) * 16 + (bytes[2] \div 16)),
            B64Char((bytes[2] % 16) * 4 + (bytes[3] \div 64)),
            B64Char(bytes[3] % 64) >> \o b64encode(SubSeq(bytes, 4, Len(bytes)))

RECURSIVE RStripPad(_)
\* str.rstrip("=")
RStripPad(s) ==
    IF s # << >> /\ s[Len(s)] = 61 THEN RStripPad(SubSeq(s, 1, Len(s) - 1)) ELSE s

B64Error == [ ok |-> FALSE, bytes |-> << >> ]

IsB64Data(c) == B64Value(c) # -1

\* quad_pos when the character at i is read: the number of alphabet
\* characters before it, modulo 4
QuadPos(s, i) == Cardinality({ j \in 1..(i - 1) : IsB64Data(s[j]) }) % 4

\* the "=" at i completes a pad sequence: one "=" after three characters of
\* a group, or a second "=" after two (no alphabet character in between)
PadEnds(s, i) ==
    /\ s[i] = 61
    /\ \/ QuadPos(s, i) = 3
       \/ /\ QuadPos(s, i) = 2
          /\ \E j \in 1..(i - 1) : s[j] = 61 /\ QuadPos(s, j) = 2
                                  /\ \A k \in j..i : ~IsB64Data(s[k])

\* the bytes of the alphabet characters d: four characters give three bytes
BytesOf(d) ==
    LET v(i) == B64Value(d[i])
        n    == (Len(d) \div 4) * 3 + (IF Len(d) % 4 = 0 THEN 0 ELSE (Len(d) % 4) - 1)
    IN  [ k \in 1..n |->
            LET g == 4 * ((k - 1) \div 3)
            IN  CASE (k - 1) % 3 = 0 -> v(g + 1) * 4 + (v(g + 2) \div 16)
                  [] (k - 1) % 3 = 1 -> (v(g + 2) % 16) * 16 + (v(g + 3) \div 4)
                  [] OTHER           -> (v(g + 3) % 4) * 64 + v(g + 4) ]

\* binascii.a2b_base64 in its default (non strict) mode: characters outside
\* the alphabet are skipped, a complete pad sequence ends the input, and an
\* unfinished group of characters at the end is an error
a2b_base64(s) ==
    LET ends == { i \in 1..Len(s) : PadEnds(s, i) }
        upto == IF ends = { } THEN Len(s) ELSE Least(ends) - 1
        d    == SelectSeq(SubSeq(s, 1, upto), IsB64Data)
    IN  IF ends = { } /\ Len(d) % 4 # 0 THEN B64Error
        ELSE [ ok |-> TRUE, bytes |-> BytesOf(d) ]

\* base64.b64decode(s)
b64decode(s) == a2b_base64(s)

Continuation(b) == b \in 128..191

RECURSIVE Utf8Ok(_)
\* bytes.decode('utf-8') succeeds
Utf8Ok(b) ==
    IF b = << >> THEN TRUE
    ELSE IF b[1] < 128 THEN Utf8Ok(Tail(b))
    ELSE IF b[1] \in 194..223
         THEN Len(b) >= 2 /\ Continuation(b[2]) /\ Utf8Ok(SubSeq(b, 3, Len(b)))
    ELSE IF b[1] \in 224..239
         THEN /\ Len(b) >= 3 /\ Continuation(b[2]) /\ Continuation(b[3])
              /\ (b[1] = 224 => b[2] >= 160)
              /\ (b[1] = 237 => b[2] <= 159)
              /\ Utf8Ok(SubSeq(b, 4, Len(b)))
    ELSE IF b[1] \in 240..244
         THEN /\ Len(b) >= 4 /\ Continuation(b[2]) /\ Continuation(b[3]) /\ Continuation(b[4])
              /\ (b[1] = 240 => b[2] >= 144)
              /\ (b[1] = 244 => b[2] <= 143)
              /\ Utf8Ok(SubSeq(b, 5, Len(b)))
    ELSE FALSE

\* base64.b64decode(s).decode('utf-8'): the text, or a failure when either
\* step raises
DecodeText(s) ==
    LET d == b64decode(s)
    IN  IF d.ok /\ Utf8Ok(d.bytes) THEN [ ok |-> TRUE, text |-> d.bytes ]
        ELSE [ ok |-> FALSE, text |-> << >> ]

HexValue(c) ==
    CASE c \in 48..57  -> c - 48
      [] c \in 65..70  -> c - 55
      [] c \in 97..102 -> c - 87
      [] OTHER         -> -1

RECURSIVE unquote(_)
\* urllib.parse.unquote on ASCII: "%" followed by two hex digits is the
\* character of that code, any other "%" stays
unquote(s) ==
    IF s = << >> THEN << >>
    ELSE IF s[1] = 37 /\ Len(s) >= 3 /\ HexValue(s[2]) # -1 /\ HexValue(s[3]) # -1
         THEN << 16 * HexValue(s[2]) + HexValue(s[3]) >> \o unquote(SubSeq(s, 4, Len(s)))
    ELSE << s[1] >> \o unquote(Tail(s))

\* the characters urllib.parse.quote leaves alone
Unreserved == (65..90) \cup (97..122) \cup (48..57) \cup { 45, 46, 95, 126, 47 }

HexDigit(v) == IF v < 10 THEN 48 + v ELSE 55 + v

RECURSIVE quote(_)
\* urllib.parse.quote on ASCII
quote(s) ==
    IF s = << >> THEN << >>
    ELSE (IF s[1] \in Unreserved THEN << s[1] >>
          ELSE << 37, HexDigit(s[1] \div 16), HexDigit(s[1] % 16) >>) \o quote(Tail(s))

RECURSIVE PyInt(_, _)
\* int(text) for a text of decimal digits, -1 when int raises
PyInt(s, acc) ==
    IF s = << >> THEN acc
    ELSE IF s[1] \in 48..57 THEN PyInt(Tail(s), 10 * acc + (s[1] - 48))
    ELSE -1

IntOfCodes(s) == IF s = << >> THEN -1 ELSE PyInt(s, 0)

\* least index i >= from with s[i] in stops, Len(s) + 1 when there is none
FirstOf(s, stops, from) ==
    LET hits == { i \in from..Len(s) : s[i] \in stops }
    IN  IF hits = { } THEN Len(s) + 1 ELSE Least(hits)

\* urllib.parse.urlparse(url), for a url "scheme://...": the netloc runs up
\* to the first "/", "?" or "#", the fragment follows the first "#"
urlparse(url) ==
    LET start == FindText(url, T(<< ":", "/", "/" >>), 1) + 3
        stop  == FirstOf(url, { 47, 63, 35 }, start)
        hash  == FindCode(url, 35, start)
    IN  [ netloc   |-> SubSeq(url, start, stop - 1),
          fragment |-> IF hash = 0 THEN << >> ELSE SubSeq(url, hash + 1, Len(url)) ]

\* the ProxyNode _parse_ss builds
SsLinkNode(name, server, port, method, password) ==
    [ name |-> name, type |-> "ss", server |-> server, port |-> port,
      cipher |-> method, password |-> password, udp |-> TRUE ]

\* the rest of _parse_ss once auth and server_part are known
SsFromParts(auth, server_part, fragment) ==
    LET mp == SplitAtFirst(auth, 58)
        sp == SplitAtFirst(server_part, 58)
    IN  IF Len(mp) < 2 \/ Len(sp) < 2 THEN << >>
        ELSE IF IntOfCodes(sp[2]) = -1 THEN << >>
        ELSE << SsLinkNode(IF fragment # << >> THEN unquote(fragment)
                                           ELSE Flatten3(sp[1], << 58 >>, sp[2]),
                           sp[1], IntOfCodes(sp[2]), mp[1], mp[2]) >>

\* SubscriptionParser._parse_ss(url): the node in a list, the empty list for
\* None (also returned when anything raises)
parse_ss(url) ==
    LET parsed == urlparse(url)
        at     == FindCode(parsed.netloc, 64, 1)
    IN  IF at = 0
        THEN LET decoded == DecodeText(parsed.netloc)
                 last    == RFindCode(decoded.text, 64)
             IN  IF ~decoded.ok \/ last = 0 THEN << >>
                 ELSE SsFromParts(SubSeq(decoded.text, 1, last - 1),
                                  SubSeq(decoded.text, last + 1, Len(decoded.text)),
                                  parsed.fragment)
        ELSE LET decoded == DecodeText(SubSeq(parsed.netloc, 1, at - 1))
             IN  IF ~decoded.ok THEN << >>
                 ELSE SsFromParts(decoded.text,
                                  SubSeq(parsed.netloc, at + 1, Len(parsed.netloc)),
                                  parsed.fragment)

\* SubscriptionParser._parse_node_line(line), for the scheme ss (a line of
\* another scheme, or of none, gives no node here)
ss_parse_node_line(line) ==
    LET sep == FindText(line, T(<< ":", "/", "/" >>), 1)
    IN  IF sep = 0 THEN << >>
        ELSE IF LowerCodes(SubSeq(line, 1, sep - 1)) = T(<< "s", "s" >>) THEN parse_ss(line)
        ELSE << >>

RECURSIVE ParseLinkLines(_)
\* the loop of parse_subscription over the lines
ParseLinkLines(lines) ==
    IF lines = << >> THEN << >>
    ELSE LET line == StripCodes(lines[1])
         IN  (IF line = << >> THEN << >> ELSE ss_parse_node_line(line)) \o ParseLinkLines(Tail(lines))

\* SubscriptionParser._is_clash_config(content), for a one-line content:
\* the YAML document is a mapping with the key proxies or Proxy
is_clash_config(content) ==
    \/ StartsWithText(content, T(<< "p", "r", "o", "x", "i", "e", "s", ":" >>))
    \/ StartsWithText(content, T(<< "P", "r", "o", "x", "y", ":" >>))

\* SubscriptionParser.parse_subscription(content), for a content that is
\* not a Clash document: the content is first tried as base64
ss_parse_subscription(content) ==
    LET decoded         == DecodeText(content)
        decoded_content == IF decoded.ok THEN decoded.text ELSE content
    IN  IF is_clash_config(decoded_content) THEN << >>
        ELSE ParseLinkLines(SplitAll(StripCodes(decoded_content), 10))

SsMethods   == { T(<< "a", "e", "s", "-", "2", "5", "6", "-", "g", "c", "m" >>), T(<< "r", "c", "4", "-", "m", "d", "5" >>) }
SsPasswords == { T(<< "p", "a", "s", "s", "w", "o", "r", "d" >>), T(<< "p", "w", "1" >>), T(<< "p", ":", "w" >>), T(<< "a", "?" >>) }
SsHosts     == { T(<< "e", "x", "a", "m", "p", "l", "e", ".", "c", "o", "m" >>), T(<< "1", ".", "2", ".", "3", ".", "4" >>) }
SsPorts     == { 443, 8388 }
SsNames     == { T(<< "n" >>), T(<< "T", "e", "s", "t", " ", "N", "o", "d", "e" >>), T(<< "a", "+", "b" >>) }

RECURSIVE Digits(_)
\* str(port)
Digits(n) == IF n < 10 THEN << 48 + n >> ELSE Digits(n \div 10) \o << 48 + (n % 10) >>

\* the link ss://base64(method:password)@host:port#name, the base64 text
\* with or without its padding, the name percent-encoded
SsUri(a) ==
    LET userinfo == b64encode(Flatten3(a.method, << 58 >>, a.password))
    IN  T(<< "s", "s", ":", "/", "/" >>)
        \o (IF a.padded THEN userinfo ELSE RStripPad(userinfo))
        \o << 64 >> \o a.host \o << 58 >> \o Digits(a.port)
        \o << 35 >> \o quote(a.name)

SsArgs ==
    [ method : SsMethods, password : SsPasswords, host : SsHosts, port : SsPorts,
      name : SsNames, padded : BOOLEAN ]

InitSs ==
    /\ args \in SsArgs
    /\ result = << >>
    /\ pc = "call"
    /\ RegistryIdle
    /\ RealityIdle
    /\ ObjectIdle

\* parser.parse_subscription(ss_url)
ParseSsSubscription ==
    /\ pc = "call"
    /\ result' = ss_parse_subscription(SsUri(args))
    /\ pc' = "done"
    /\ UNCHANGED <<args, registryVars, realityVars, objectVars>>

NextSs == ParseSsSubscription

SpecSs == InitSs /\ [][NextSs]_vars

\* C17: parsing a valid link ss://base64(method:password)@host:port#name
\* yields exactly one SS node, with cipher = method, password = password,
\* server = host, port = port and name = the percent-decoded fragment.
C17_SsLinkParsed ==
    pc = "done" =>
        result = << SsLinkNode(args.name, args.host, args.port, args.method, args.password) >>

(***************************************************************************)
(* Clash map of a node and back: _convert_node_to_clash followed by        *)
(* SubscriptionParser._parse_clash_proxy                                   *)
(***************************************************************************)

\* proxy.get(key, default)
ProxyGet(proxy, key, default) == IF key \in DOMAIN proxy THEN proxy[key] ELSE default

\* the values of the enumeration ProxyType
ProxyTypeValues ==
    { "ss", "ssr", "vmess", "vless", "trojan", "hysteria", "hysteria2", "tuic", "wireguard" }

\* mutant: the ss branch reads the cipher under the key "method"
parse_clash_proxy_reads_method(proxy) ==
    LET proxy_type == Lower(ProxyGet(proxy, "type", ""))
        node_data  == [ name   |-> ProxyGet(proxy, "name", << >>),
                        type   |-> proxy_type,
                        server |-> ProxyGet(proxy, "server", ""),
                        port   |-> ProxyGet(proxy, "port", 443) ]
        fields     == CASE proxy_type = "ss" ->
                             [ cipher   |-> ProxyGet(proxy, "method", "None"),
                               password |-> ProxyGet(proxy, "password", "None"),
                               udp      |-> ProxyGet(proxy, "udp", TRUE) ]
                        [] proxy_type = "vmess" ->
                             [ uuid    |-> ProxyGet(proxy, "uuid", "None"),
                               alterId |-> ProxyGet(proxy, "alterId", 0),
                               cipher  |-> ProxyGet(proxy, "cipher", "auto"),
                               network |-> ProxyGet(proxy, "network", "tcp"),
                               tls     |-> ProxyGet(proxy, "tls", FALSE) ]
                        [] OTHER -> << >>
    IN  IF proxy_type \notin ProxyTypeValues THEN NoNode
        ELSE [ none |-> FALSE, node |-> fields @@ node_data ]

\* SubscriptionParser._parse_clash_proxy(proxy) for ss and vmess maps without
\* transport options: the ProxyNode built from node_data, or None when
\* ProxyNode(**node_data) rejects the type
parse_clash_proxy(proxy) ==
    LET proxy_type == Lower(ProxyGet(proxy, "type", ""))
        node_data  == [ name   |-> ProxyGet(proxy, "name", << >>),
                        type   |-> proxy_type,
                        server |-> ProxyGet(proxy, "server", ""),
                        port   |-> ProxyGet(proxy, "port", 443) ]
        fields     == CASE proxy_type = "ss" ->
                             [ cipher   |-> ProxyGet(proxy, "cipher", "None"),
                               password |-> ProxyGet(proxy, "password", "None"),
                               udp      |-> ProxyGet(proxy, "udp", TRUE) ]
                        [] proxy_type = "vmess" ->
                             [ uuid    |-> ProxyGet(proxy, "uuid", "None"),
                               alterId |-> ProxyGet(proxy, "alterId", 0),
                               cipher  |-> ProxyGet(proxy, "cipher", "auto"),
                               network |-> ProxyGet(proxy, "network", "tcp"),
                               tls     |-> ProxyGet(proxy, "tls", FALSE) ]
                        [] OTHER -> << >>
    IN  IF proxy_type \notin ProxyTypeValues THEN NoNode
        ELSE [ none |-> FALSE, node |-> fields @@ node_data ]

RoundTripCiphers   == { "aes-256-gcm", "chacha20-ietf-poly1305", "None" }
RoundTripPasswords == { "password1", "", "None" }
RoundTripServers   == { "example1.com", "1.2.3.4" }
RoundTripPorts     == { 0, 443, 8388, 70000 }

\* SS nodes as the parsers build them, and VMess nodes
RoundTripNodes ==
    { [ name |-> << "s" >>, type |-> "ss", server |-> s, port |-> p,
        cipher |-> c, password |-> w, uuid |-> "None", tls |-> FALSE, udp |-> u ] :
      s \in RoundTripServers, p \in RoundTripPorts, c \in RoundTripCiphers,
      w \in RoundTripPasswords, u \in BOOLEAN }
    \cup { VMessNode(<< "v" >>, t) : t \in BOOLEAN }

InitRoundTrip ==
    /\ args \in [ node : RoundTripNodes, request : [ udp : BOOLEAN, tfo : BOOLEAN, scv : BOOLEAN ] ]
    /\ result = << >>
    /\ pc = "call"
    /\ RegistryIdle
    /\ RealityIdle
    /\ ObjectIdle

\* proxy = converter._convert_node_to_clash(node, request)
ConvertToClashMap ==
    /\ pc = "call"
    /\ result' = [ proxy |-> convert_node_to_clash(args.node, args.request) ]
    /\ pc' = "converted"
    /\ UNCHANGED <<args, registryVars, realityVars, objectVars>>

\* parser._parse_clash_proxy(proxy)
ParseClashProxy ==
    /\ pc = "converted"
    /\ result' = [ proxy |-> result.proxy, parsed |-> parse_clash_proxy(result.proxy) ]
    /\ pc' = "done"
    /\ UNCHANGED <<args, registryVars, realityVars, objectVars>>

NextRoundTrip == ConvertToClashMap \/ ParseClashProxy

SpecRoundTrip == InitRoundTrip /\ [][NextRoundTrip]_vars

\* C18: converting an SS node to its Clash map and parsing that map again
\* gives a node with the cipher, password, server and port of the original.
C18_SsRoundTrip ==
    (pc = "done" /\ args.node.type = "ss") =>
        /\ ~result.parsed.none
        /\ result.parsed.node.cipher = args.node.cipher
        /\ result.parsed.node.password = args.node.password
        /\ result.parsed.node.server = args.node.server
        /\ result.parsed.node.port = args.node.port

\* an SS node with a cipher and a password went through the map and back,
\* under a request that changed the udp flag of the map
C18_Witness ==
    /\ pc = "done"
    /\ args.node.type = "ss"
    /\ args.node.cipher = "chacha20-ietf-poly1305"
    /\ args.node.password = "password1"
    /\ args.node.port = 8388
    /\ args.node.udp /\ ~args.request.udp
    /\ "tfo" \in DOMAIN result.proxy
    /\ ~result.parsed.none
    /\ result.parsed.node.cipher = "chacha20-ietf-poly1305"
    /\ ~result.parsed.node.udp

(***************************************************************************)
(* Version compatibility: VersionManager.check_compatibility and           *)
(* migrate_node_version                                                    *)
(* A version is a text of character codes; a warning is the message with   *)
(* the two versions it quotes (the fixed words of a message are glossed in *)
(* English, the field names it mentions are kept).                         *)
(***************************************************************************)

Warning(words, source_version, target_version) ==
    [ words |-> words, source_version |-> source_version, target_version |-> target_version ]

\* a message that quotes no version
Notice(words) == Warning(words, << >>, << >>)

\* CompatibilityRule(source_version, target_version, compatibility_level,
\* field_mappings, warnings); field_mappings is None or the pairs of the
\* dict in their order, a pair's target being "None" for a removed field
CompatibilityRule(source_version, target_version, level, field_mappings, warnings) ==
    [ source_version      |-> source_version,
      target_version      |-> target_version,
      compatibility_level |-> level,
      field_mappings      |-> field_mappings,
      warnings            |-> warnings ]

\* mutant: the two TUIC rules carry each other's level
compatibility_rules_levels_swapped(protocol) ==
    CASE protocol = "hysteria" ->
           << CompatibilityRule(T(<< "1" >>), T(<< "2" >>), "partial",
                  SomeList(<< << "auth_str", "auth" >>, << "obfs", "obfs" >>,
                              << "up", "up_mbps" >>, << "down", "down_mbps" >> >>),
                  SomeList(<< Notice(<< "fast_open", "and", "lazy_start", "are not supported in v2" >>) >>)),
              CompatibilityRule(T(<< "2" >>), T(<< "1" >>), "degraded",
                  SomeList(<< << "auth", "auth_str" >>, << "up_mbps", "up" >>, << "down_mbps", "down" >> >>),
                  SomeList(<< Notice(<< "brutal", "and", "salamander", "obfuscation are not supported in v1" >>) >>)) >>
      [] protocol = "tuic" ->
           << CompatibilityRule(T(<< "4" >>), T(<< "5" >>), "degraded",
                  SomeList(<< << "token", "uuid" >>, << "disable_sni", "None" >> >>),
                  SomeList(<< Notice(<< "must also set the", "password", "field" >>),
                              Notice(<< "disable_sni", "was removed" >>) >>)),
              CompatibilityRule(T(<< "5" >>), T(<< "4" >>), "partial",
                  SomeList(<< << "uuid", "token" >>, << "password", "None" >>,
                              << "udp_relay_mode", "None" >>, << "reduce_rtt", "None" >> >>),
                  SomeList(<< Notice(<< "password", ",", "udp_relay_mode", ",", "reduce_rtt",
                                        "are not supported in v4" >>) >>)) >>
      [] OTHER -> << >>

\* VersionManager.compatibility_rules.get(protocol, [])
compatibility_rules(protocol) ==
    CASE protocol = "hysteria" ->
           << CompatibilityRule(T(<< "1" >>), T(<< "2" >>), "partial",
                  SomeList(<< << "auth_str", "auth" >>, << "obfs", "obfs" >>,
                              << "up", "up_mbps" >>, << "down", "down_mbps" >> >>),
                  SomeList(<< Notice(<< "fast_open", "and", "lazy_start", "are not supported in v2" >>) >>)),
              CompatibilityRule(T(<< "2" >>), T(<< "1" >>), "degraded",
                  SomeList(<< << "auth", "auth_str" >>, << "up_mbps", "up" >>, << "down_mbps", "down" >> >>),
                  SomeList(<< Notice(<< "brutal", "and", "salamander", "obfuscation are not supported in v1" >>) >>)) >>
      [] protocol = "tuic" ->
           << CompatibilityRule(T(<< "4" >>), T(<< "5" >>), "partial",
                  SomeList(<< << "token", "uuid" >>, << "disable_sni", "None" >> >>),
                  SomeList(<< Notice(<< "must also set the", "password", "field" >>),
                              Notice(<< "disable_sni", "was removed" >>) >>)),
              CompatibilityRule(T(<< "5" >>), T(<< "4" >>), "degraded",
                  SomeList(<< << "uuid", "token" >>, << "password", "None" >>,
                              << "udp_relay_mode", "None" >>, << "reduce_rtt", "None" >> >>),
                  SomeList(<< Notice(<< "password", ",", "udp_relay_mode", ",", "reduce_rtt",
                                        "are not supported in v4" >>) >>)) >>
      [] OTHER -> << >>

RECURSIVE SplitCodes(_, _)
\* s.split(c) on character codes
SplitCodes(s, c) ==
    LET i == FindCode(s, c, 1)
    IN  IF i = 0 THEN << s >>
        ELSE << SubSeq(s, 1, i - 1) >> \o SplitCodes(SubSeq(s, i + 1, Len(s)), c)

RECURSIVE DropTrailingZeros(_)
DropTrailingZeros(r) ==
    IF r # << >> /\ r[Len(r)] = 0 THEN DropTrailingZeros(SubSeq(r, 1, Len(r) - 1)) ELSE r

\* packaging.version.parse(text) for a text that is at most a release
\* number: blanks stripped, an optional leading "v", the numbers between the
\* dots; any other text raises InvalidVersion.  The release is kept without
\* its trailing zeros, which is the key packaging compares.
pkg_version_parse(text) ==
    LET stripped == StripCodes(text)
        body     == IF stripped # << >> /\ stripped[1] \in { 86, 118 } THEN Tail(stripped) ELSE stripped
        segments == SplitCodes(body, 46)
    IN  IF \E i \in 1..Len(segments) : IntOfCodes(segments[i]) = -1
        THEN [ ok |-> FALSE, release |-> << >> ]
        ELSE [ ok |-> TRUE,
               release |-> DropTrailingZeros([ i \in 1..Len(segments) |-> IntOfCodes(segments[i]) ]) ]

RECURSIVE ReleaseLess(_, _)
\* tuple comparison a < b
ReleaseLess(a, b) ==
    IF b = << >> THEN FALSE
    ELSE IF a = << >> THEN TRUE
    ELSE IF a[1] # b[1] THEN a[1] < b[1]
    ELSE ReleaseLess(Tail(a), Tail(b))

\* the first rule of the list with the given source and target version
FirstRule(rules, source_version, target_version) ==
    LET hits == { i \in 1..Len(rules) : /\ rules[i].source_version = source_version
                                        /\ rules[i].target_version = target_version }
    IN  IF hits = { } THEN 0 ELSE Least(hits)

\* VersionManager.check_compatibility(protocol, source_version, target_version)
check_compatibility(protocol, source_version, target_version) ==
    LET protocol_rules == compatibility_rules(Lower(protocol))
        found          == FirstRule(protocol_rules, source_version, target_version)
        source_ver     == pkg_version_parse(source_version)
        target_ver     == pkg_version_parse(target_version)
    IN  IF found # 0 THEN protocol_rules[found]
        ELSE IF ~source_ver.ok \/ ~target_ver.ok
        THEN CompatibilityRule(source_version, target_version, "incompatible", NoneList,
                 SomeList(<< Warning(<< "cannot determine the compatibility of v", "{source_version}",
                                        "and v", "{target_version}" >>,
                                     source_version, target_version) >>))
        ELSE IF source_ver.release = target_ver.release
        THEN CompatibilityRule(source_version, target_version, "full", NoneList, NoneList)
        ELSE IF ReleaseLess(source_ver.release, target_ver.release)
        THEN CompatibilityRule(source_version, target_version, "partial", NoneList,
                 SomeList(<< Warning(<< "upgrading from v", "{source_version}", "to v", "{target_version}",
                                        "may change features" >>,
                                     source_version, target_version) >>))
        ELSE CompatibilityRule(source_version, target_version, "degraded", NoneList,
                 SomeList(<< Warning(<< "downgrading from v", "{source_version}", "to v", "{target_version}",
                                        "loses some features" >>,
                                     source_version, target_version) >>))

\* the keys of VersionManager.protocol_versions.get(protocol, {}), in the
\* order of the dict
protocol_versions(protocol) ==
    CASE protocol = "hysteria"  -> << T(<< "1" >>), T(<< "2" >>) >>
      [] protocol = "tuic"      -> << T(<< "4" >>), T(<< "5" >>) >>
      [] protocol = "vless"     -> << T(<< "1" >>) >>
      [] protocol = "wireguard" -> << T(<< "1" >>) >>
      [] OTHER                  -> << >>

RECURSIVE SortedVersions(_)
\* sorted(versions, key=pkg_version.parse): the least one first (stable)
SortedVersions(versions) ==
    IF versions = << >> THEN << >>
    ELSE LET key(i) == pkg_version_parse(versions[i]).release
             first  == Least({ i \in 1..Len(versions) :
                                 \A j \in 1..Len(versions) : ~ReleaseLess(key(j), key(i)) })
         IN  << versions[first] >>
             \o SortedVersions(SubSeq(versions, 1, first - 1) \o SubSeq(versions, first + 1, Len(versions)))

\* VersionManager.get_supported_versions(protocol)
get_supported_versions(protocol) == SortedVersions(protocol_versions(Lower(protocol)))

RECURSIVE UpgradeSteps(_, _, _, _)
\* the loop of recommend_migration_path over all_versions
UpgradeSteps(all_versions, current_ver, target_ver, i) ==
    IF i > Len(all_versions) THEN << >>
    ELSE LET ver == pkg_version_parse(all_versions[i]).release
         IN  (IF ReleaseLess(current_ver, ver) /\ ~ReleaseLess(target_ver, ver)
              THEN << all_versions[i] >> ELSE << >>)
             \o UpgradeSteps(all_versions, current_ver, target_ver, i + 1)

\* mutant: the loop also takes the versions equal to the current one
recommend_migration_path_from_current(protocol, current_version, target_version) ==
    LET current_ver == pkg_version_parse(current_version)
        target_ver  == pkg_version_parse(target_version)
        all_versions == get_supported_versions(protocol)
        steps == SelectSeq(all_versions,
                           LAMBDA v : /\ ~ReleaseLess(pkg_version_parse(v).release, current_ver.release)
                                      /\ ~ReleaseLess(target_ver.release, pkg_version_parse(v).release))
    IN  IF current_version = target_version THEN << current_version >>
        ELSE IF ~current_ver.ok \/ ~target_ver.ok THEN << current_version, target_version >>
        ELSE IF ReleaseLess(current_ver.release, target_ver.release)
        THEN << current_version >> \o steps
        ELSE << current_version, target_version >>

\* VersionManager.recommend_migration_path(protocol, current_version, target_version)
recommend_migration_path(protocol, current_version, target_version) ==
    LET current_ver == pkg_version_parse(current_version)
        target_ver  == pkg_version_parse(target_version)
        all_versions == get_supported_versions(protocol)
    IN  IF current_version = target_version THEN << current_version >>
        ELSE IF ~current_ver.ok \/ ~target_ver.ok THEN << current_version, target_version >>
        ELSE IF ReleaseLess(current_ver.release, target_ver.release)
        THEN << current_version >>
             \o UpgradeSteps(all_versions, current_ver.release, target_ver.release, 1)
        ELSE << current_version, target_version >>

VersionProtocols == { "tuic", "TUIC", "hysteria", "vless", "unknown" }

VersionTexts ==
    { T(<< "1" >>), T(<< "2" >>), T(<< "4" >>), T(<< "5" >>), T(<< "4", ".", "0" >>),
      T(<< "v", "5" >>), T(<< "1", "0" >>), T(<< "l", "a", "t", "e", "s", "t" >>), << >> }

\* hasattr(node, field): a node is the record of its attributes
HasAttr(node, field) == field \in DOMAIN node

\* delattr(node, field)
DelAttr(node, field) == [ k \in DOMAIN node \ { field } |-> node[k] ]

\* setattr(node, field, value)
SetAttr(node, field, value) ==
    [ k \in DOMAIN node \cup { field } |-> IF k = field THEN value ELSE node[k] ]

\* one turn of the loop of _apply_node_migration over rule.field_mappings
ApplyMapping(node, migrated_node, source_field, target_field) ==
    IF target_field = "None"
    THEN IF HasAttr(migrated_node, source_field) THEN DelAttr(migrated_node, source_field)
         ELSE migrated_node
    ELSE IF HasAttr(node, source_field) /\ HasAttr(migrated_node, target_field)
         THEN SetAttr(migrated_node, target_field, node[source_field])
         ELSE migrated_node

RECURSIVE ApplyMappings(_, _, _, _)
ApplyMappings(node, migrated_node, mappings, i) ==
    IF i > Len(mappings) THEN migrated_node
    ELSE ApplyMappings(node, ApplyMapping(node, migrated_node, mappings[i][1], mappings[i][2]),
                       mappings, i + 1)

\* VersionManager._apply_node_migration(node, rule); no rule carries a
\* transformation_func
apply_node_migration(node, rule) ==
    IF ~TruthyList(rule.field_mappings) THEN node
    ELSE ApplyMappings(node, node, rule.field_mappings.list, 1)

\* VersionManager.migrate_node_version(node, target_version)
migrate_node_version(node, target_version) ==
    IF ~HasAttr(node, "extra_config") \/ DOMAIN node.extra_config = { }
    THEN [ node |-> node, warnings |-> << >> ]
    ELSE LET current_version == IF "version" \in DOMAIN node.extra_config
                                THEN node.extra_config.version ELSE T(<< "1" >>)
             protocol        == Lower(node.type)
             compatibility   == check_compatibility(protocol, current_version, target_version)
             migrated_node   == apply_node_migration(node, compatibility)
         IN  IF compatibility.compatibility_level = "incompatible"
             THEN [ node |-> node,
                    warnings |-> << Warning(<< "cannot migrate", protocol, "v", "{current_version}",
                                               "to v", "{target_version}" >>,
                                            current_version, target_version) >> ]
             ELSE [ node |-> IF HasAttr(migrated_node, "extra_config")
                             THEN SetAttr(migrated_node, "extra_config",
                                          SetAttr(migrated_node.extra_config, "version", target_version))
                             ELSE migrated_node,
                    warnings |-> IF TruthyList(compatibility.warnings)
                                 THEN compatibility.warnings.list ELSE << >> ]

\* the declared fields of ProxyNode the rules speak of
DeclaredNodes ==
    [ type : { "tuic", "hysteria" }, uuid : { "uuid1", "None" }, password : { "password1", "None" },
      auth_str : { "auth1", "None" }, up : { "10", "None" }, obfs : { "None" } ]

\* node.extra_config, for a node class that accepts the attribute
ExtraConfigs ==
    { << >>, [ obfs |-> "salamander" ], [ version |-> T(<< "5" >>) ], [ version |-> T(<< "4" >>) ],
      [ version |-> T(<< "1" >>) ], [ version |-> T(<< "2" >>), obfs |-> "salamander" ] }

\* the nodes handed to migrate_node_version: a ProxyNode has its declared
\* fields only; a node of a class that accepts other attributes may carry
\* extra_config and a token
MigrationNodes ==
    DeclaredNodes
    \cup { [ extra_config |-> e ] @@ n : n \in DeclaredNodes, e \in ExtraConfigs }
    \cup { [ extra_config |-> e, token |-> "token1" ] @@ n : n \in DeclaredNodes, e \in ExtraConfigs }

MigrationTargets == { T(<< "1" >>), T(<< "2" >>), T(<< "4" >>), T(<< "5" >>), T(<< "l", "a", "t", "e", "s", "t" >>) }

VersionArgs ==
    [ op : { "check_compatibility" }, protocol : VersionProtocols,
      source_version : VersionTexts, target_version : VersionTexts ]
    \cup [ op : { "migrate_node_version" }, node : MigrationNodes, target_version : MigrationTargets ]
    \cup [ op : { "recommend_migration_path" }, protocol : VersionProtocols,
           current_version : VersionTexts, target_version : VersionTexts ]

InitVersion ==
    /\ args \in VersionArgs
    /\ result = << >>
    /\ pc = "call"
    /\ RegistryIdle
    /\ RealityIdle
    /\ ObjectIdle

\* version_manager.check_compatibility(protocol, source_version, target_version)
CheckCompatibility ==
    /\ pc = "call" /\ args.op = "check_compatibility"
    /\ result' = check_compatibility(args.protocol, args.source_version, args.target_version)
    /\ pc' = "done"
    /\ UNCHANGED <<args, registryVars, realityVars, objectVars>>

\* version_manager.migrate_node_version(node, target_version)
MigrateNodeVersion ==
    /\ pc = "call" /\ args.op = "migrate_node_version"
    /\ result' = migrate_node_version(args.node, args.target_version)
    /\ pc' = "done"
    /\ UNCHANGED <<args, registryVars, realityVars, objectVars>>

\* version_manager.recommend_migration_path(protocol, current_version, target_version)
RecommendMigrationPath ==
    /\ pc = "call" /\ args.op = "recommend_migration_path"
    /\ result' = recommend_migration_path(args.protocol, args.current_version, args.target_version)
    /\ pc' = "done"
    /\ UNCHANGED <<args, registryVars, realityVars, objectVars>>

NextVersion == CheckCompatibility \/ MigrateNodeVersion \/ RecommendMigrationPath

SpecVersion == InitVersion /\ [][NextVersion]_vars

\* some warning of the list mentions the field
WarningNames(warnings, field) == \E i \in 1..Len(warnings) : Contains(warnings[i].words, field)

\* the (protocol, from, to) triples of the curated table
CuratedTriples ==
    { << "hysteria", T(<< "1" >>), T(<< "2" >>) >>, << "hysteria", T(<< "2" >>), T(<< "1" >>) >>,
      << "tuic", T(<< "4" >>), T(<< "5" >>) >>, << "tuic", T(<< "5" >>), T(<< "4" >>) >> }

\* the number a version text denotes, scaled to compare 4, 4.0, v5 and 10
\* (-1 for a text that is no version)
VersionNumber(text) ==
    CASE text = T(<< "1" >>) -> 10 [] text = T(<< "2" >>) -> 20 [] text = T(<< "4" >>) -> 40
      [] text = T(<< "4", ".", "0" >>) -> 40 [] text = T(<< "5" >>) -> 50
      [] text = T(<< "v", "5" >>) -> 50 [] text = T(<< "1", "0" >>) -> 100
      [] OTHER -> -1

\* C19: check_compatibility returns the curated rule on an exact match of
\* (protocol, from, to): TUIC 4 to 5 is partial and warns about the password,
\* TUIC 5 to 4 is degraded and its warnings name password, udp_relay_mode and
\* reduce_rtt.  Without a match the versions are compared as numbers: equal
\* is full, an upgrade is partial with a generic warning, a downgrade is
\* degraded with a generic warning, an unparsable version is incompatible.
C19_CompatibilityLevels ==
    (pc = "done" /\ args.op = "check_compatibility") =>
        LET triple == << Lower(args.protocol), args.source_version, args.target_version >>
            from   == VersionNumber(args.source_version)
            to     == VersionNumber(args.target_version)
            generic == /\ ~result.warnings.none
                       /\ Len(result.warnings.list) = 1
                       /\ result.warnings.list[1].source_version = args.source_version
                       /\ result.warnings.list[1].target_version = args.target_version
        IN  /\ result.source_version = args.source_version
            /\ result.target_version = args.target_version
            /\ triple = << "tuic", T(<< "4" >>), T(<< "5" >>) >> =>
                   /\ result.compatibility_level = "partial"
                   /\ WarningNames(result.warnings.list, "password")
            /\ triple = << "tuic", T(<< "5" >>), T(<< "4" >>) >> =>
                   /\ result.compatibility_level = "degraded"
                   /\ WarningNames(result.warnings.list, "password")
                   /\ WarningNames(result.warnings.list, "udp_relay_mode")
                   /\ WarningNames(result.warnings.list, "reduce_rtt")
            /\ triple \in CuratedTriples => TruthyList(result.field_mappings)
            /\ triple \notin CuratedTriples =>
                   /\ result.field_mappings.none
                   /\ (from = -1 \/ to = -1) => result.compatibility_level = "incompatible"
                   /\ (from # -1 /\ from = to) =>
                          result.compatibility_level = "full" /\ result.warnings.none
                   /\ (from # -1 /\ from < to) =>
                          result.compatibility_level = "partial" /\ generic
                   /\ (to # -1 /\ from > to) =>
                          result.compatibility_level = "degraded" /\ generic

\* the curated TUIC 5 to 4 rule was returned for a protocol name in capitals
C19_Witness ==
    /\ pc = "done" /\ args.op = "check_compatibility"
    /\ args.protocol = "TUIC"
    /\ args.source_version = T(<< "5" >>) /\ args.target_version = T(<< "4" >>)
    /\ result.compatibility_level = "degraded"
    /\ WarningNames(result.warnings.list, "reduce_rtt")

\* the version the node is at: extra_config['version'], "1" by default
CurrentVersion(node) ==
    IF HasAttr(node, "extra_config") /\ "version" \in DOMAIN node.extra_config
    THEN node.extra_config.version ELSE T(<< "1" >>)

\* C20: migrate_node_version applies the field mapping of the rule matched
\* for the node's current version and the target version: a field mapped to
\* none is dropped from the migrated node and a warning names it, any other
\* mapped field is renamed to its target name.
C20_MappingApplied ==
    (pc = "done" /\ args.op = "migrate_node_version"
       /\ << args.node.type, CurrentVersion(args.node), args.target_version >> \in CuratedTriples) =>
        LET rule     == check_compatibility(args.node.type, CurrentVersion(args.node), args.target_version)
            mappings == rule.field_mappings.list
        IN  \A i \in 1..Len(mappings) :
                LET source_field == mappings[i][1]
                    target_field == mappings[i][2]
                IN  HasAttr(args.node, source_field) =>
                        IF target_field = "None"
                        THEN /\ ~HasAttr(result.node, source_field)
                             /\ WarningNames(result.warnings, source_field)
                        ELSE /\ HasAttr(result.node, target_field)
                             /\ result.node[target_field] = args.node[source_field]
                             /\ (source_field # target_field => ~HasAttr(result.node, source_field))

\* the versions known for a protocol
KnownVersions(protocol) ==
    LET known == protocol_versions(Lower(protocol)) IN { known[i] : i \in 1..Len(known) }

\* C21: for an upgrade recommend_migration_path returns the current version
\* followed by every known version between source and target, in ascending
\* order; for a downgrade it returns exactly [current, target].
C21_MigrationPath ==
    (pc = "done" /\ args.op = "recommend_migration_path") =>
        LET from == VersionNumber(args.current_version)
            to   == VersionNumber(args.target_version)
        IN  /\ (from # -1 /\ to # -1 /\ from < to) =>
                   /\ result[1] = args.current_version
                   /\ { result[i] : i \in 2..Len(result) } =
                          { v \in KnownVersions(args.protocol) :
                              from < VersionNumber(v) /\ VersionNumber(v) <= to }
                   /\ \A i \in 2..(Len(result) - 1) :
                          VersionNumber(result[i]) < VersionNumber(result[i + 1])
            /\ (to # -1 /\ from > to) =>
                   result = << args.current_version, args.target_version >>

\* an upgrade of TUIC from 1 to 10 stepped through both known versions
C21_Witness ==
    /\ pc = "done" /\ args.op = "recommend_migration_path"
    /\ args.protocol = "TUIC"
    /\ args.current_version = T(<< "1" >>) /\ args.target_version = T(<< "1", "0" >>)
    /\ result = << T(<< "1" >>), T(<< "4" >>), T(<< "5" >>) >>

(***************************************************************************)
(* The stages of SubscriptionConverter.convert_subscription, one step per  *)
(* stage: store holds the local variables of the call, log the stages run  *)
(***************************************************************************)

MaxUrls == 2

\* what _fetch_and_parse_subscription returns for a URL (the empty list when
\* the fetch fails or the content holds no node)
FetchedLists ==
    { << >>, << SSNode(<< "hk", "1" >>) >>, << SSNode(<< "US" >>), VMessNode(<< "jp" >>, TRUE) >> }

StageRequests ==
    [ include       : { NoPattern, Lit(<< "hk" >>) },
      exclude       : { NoPattern, Lit(<< "us" >>) },
      rename        : { NoText, SomeText(<< "hk", ",", "jp" >>) },
      emoji         : BOOLEAN,
      udp           : { TRUE },
      tfo           : { FALSE },
      scv           : { FALSE },
      custom_rules  : { NoneList },
      remote_config : BOOLEAN ]

\* mutant: an empty filter result does not end the call
stage_after_goes_on(stage, locals, request, urls) ==
    CASE stage = "fetch" ->
           IF locals.i <= urls THEN "fetch"
           ELSE IF locals.all_nodes = << >> THEN "done" ELSE "filter"
      [] stage = "filter" -> "rename"
      [] stage = "rename" -> IF request.remote_config THEN "remote" ELSE "generate"
      [] stage = "remote" -> "generate"
      [] OTHER -> "done"

\* the stage convert_subscription goes to once the given stage has run,
\* "done" when it returns; locals are the local variables after the stage
stage_after(stage, locals, request, urls) ==
    CASE stage = "fetch" ->
           IF locals.i <= urls THEN "fetch"
           ELSE IF locals.all_nodes = << >> THEN "done" ELSE "filter"
      [] stage = "filter" -> IF locals.filtered_nodes = << >> THEN "done" ELSE "rename"
      [] stage = "rename" -> IF request.remote_config THEN "remote" ELSE "generate"
      [] stage = "remote" -> "generate"
      [] OTHER -> "done"

InitStages ==
    /\ args \in [ fetched : SeqsUpTo(FetchedLists, MaxUrls) \ { << >> }, request : StageRequests,
                  remote  : RemoteConfigs ]
    /\ result = << >>
    /\ pc = "fetch"
    /\ store = [ i |-> 1, all_nodes |-> << >>, filtered_nodes |-> << >>, renamed_nodes |-> << >>,
                 remote_config |-> NoRemote ]
    /\ log = << >>
    /\ clock = 0
    /\ RegistryIdle
    /\ RealityIdle

\* nodes = await self._fetch_and_parse_subscription(url); all_nodes.extend(nodes)
\* and, after the last URL, the test of all_nodes
FetchAndParse ==
    /\ pc = "fetch"
    /\ LET locals == [ store EXCEPT !.i = @ + 1, !.all_nodes = @ \o args.fetched[store.i] ]
           next   == stage_after("fetch", locals, args.request, Len(args.fetched))
       IN  /\ store' = locals
           /\ log' = Append(log, "fetch")
           /\ pc' = next
           /\ result' = IF next = "done" THEN Failure("no valid node") ELSE result
    /\ UNCHANGED <<args, clock, registryVars, realityVars>>

\* filtered_nodes = self._apply_node_filters(all_nodes, request) and its test
ApplyFiltersStage ==
    /\ pc = "filter"
    /\ LET locals == [ store EXCEPT !.filtered_nodes = ConvApplyNodeFilters(store.all_nodes, args.request) ]
           next   == stage_after("filter", locals, args.request, Len(args.fetched))
       IN  /\ store' = locals
           /\ log' = Append(log, "filter")
           /\ pc' = next
           /\ result' = IF next = "done" THEN Failure("no node left after filtering") ELSE result
    /\ UNCHANGED <<args, clock, registryVars, realityVars>>

\* renamed_nodes = self._apply_node_rename(filtered_nodes, request)
ApplyRenameStage ==
    /\ pc = "rename"
    /\ LET locals == [ store EXCEPT !.renamed_nodes = ConvApplyNodeRename(store.filtered_nodes, args.request) ]
       IN  /\ store' = locals
           /\ pc' = stage_after("rename", locals, args.request, Len(args.fetched))
    /\ log' = Append(log, "rename")
    /\ UNCHANGED <<args, result, clock, registryVars, realityVars>>

\* remote_config = await self.rule_processor.fetch_remote_config(...)
FetchRemoteConfig ==
    /\ pc = "remote"
    /\ store' = [ store EXCEPT !.remote_config = args.remote ]
    /\ log' = Append(log, "remote")
    /\ pc' = stage_after("remote", store', args.request, Len(args.fetched))
    /\ UNCHANGED <<args, result, clock, registryVars, realityVars>>

\* config = await self._generate_clash_config(renamed_nodes, request, remote_config):
\* the groups, then the rules, then the document
GenerateStage ==
    /\ pc = "generate"
    /\ log' = log \o << "groups", "rules", "generate" >>
    /\ result' = [ success     |-> TRUE,
                   message     |-> "ok",
                   config      |-> generate_clash_config(store.renamed_nodes, args.request, store.remote_config),
                   nodes_count |-> Len(store.renamed_nodes) ]
    /\ pc' = stage_after("generate", store, args.request, Len(args.fetched))
    /\ UNCHANGED <<args, store, clock, registryVars, realityVars>>

NextStages ==
    FetchAndParse \/ ApplyFiltersStage \/ ApplyRenameStage \/ FetchRemoteConfig \/ GenerateStage

SpecStages == InitStages /\ [][NextStages]_vars

\* the place of a stage in the order of the claim
StageRank(stage) ==
    CASE stage = "fetch" -> 1 [] stage = "filter" -> 2 [] stage = "rename" -> 3
      [] stage = "remote" -> 4 [] stage = "groups" -> 5 [] stage = "rules" -> 5
      [] OTHER -> 6

Count(stage) == Cardinality({ i \in 1..Len(log) : log[i] = stage })

\* C22: the stages run in the order fetch/parse of every URL, filter, rename,
\* remote-rule fetch, group/rule synthesis, generation; the call returns a
\* failure with nodes_count 0 and no config as soon as parsing or filtering
\* leaves no node, and then the remote rule config is never fetched.
C22_StagesInOrder ==
    /\ \A i, j \in 1..Len(log) : i < j => StageRank(log[i]) <= StageRank(log[j])
    /\ \A stage \in { "filter", "rename", "remote", "generate" } : Count(stage) <= 1
    /\ Count("filter") = 1 => Count("fetch") = Len(args.fetched)
    /\ Count("generate") = 1 => Count("filter") = 1 /\ Count("rename") = 1 /\ Count("groups") = 1
    /\ (pc = "done" /\ store.all_nodes = << >>) =>
           /\ result = Failure("no valid node") /\ "config" \notin DOMAIN result
           /\ Last(log) = "fetch"
    /\ (pc = "done" /\ store.all_nodes # << >> /\ store.filtered_nodes = << >>) =>
           /\ ~result.success /\ result.nodes_count = 0 /\ "config" \notin DOMAIN result
           /\ Last(log) = "filter"
    /\ (pc = "done" /\ Count("generate") = 0) => Count("remote") = 0

\* two subscriptions were fetched, the filter left no node, and the call
\* returned although the request names a remote rule config
C22_Witness ==
    /\ pc = "done"
    /\ log = << "fetch", "fetch", "filter" >>
    /\ store.all_nodes # << >>
    /\ args.request.remote_config
    /\ ~result.success

\* ---------------------------------------------------------------------------
\* Cache: MemoryCache and CacheManager (performance/cache_manager.py)
\* ---------------------------------------------------------------------------

\* Number of cache calls explored, and of jumps of the wall clock.
MaxCacheCalls == 4
MaxTicks == 2
\* Seconds the wall clock jumps by when time passes between two calls.
TickSeconds == 200

\* CacheManager(memory_cache_size = 2, memory_cache_mb = 1)
memory_cache_size == 2
memory_cache_mb == 1
max_memory == (memory_cache_mb * 1024) * 1024

\* cache_key = f"{cache_type}:{key}"
CacheTypes == {"generated_config", "subscription"}
CacheKeys == { <<cache_type, "k">> : cache_type \in CacheTypes }

\* config.get('ttl', 300) over self.cache_configs
cache_ttl(cache_type) ==
    CASE cache_type = "subscription"     -> 300
      [] cache_type = "parsed_nodes"     -> 600
      [] cache_type = "generated_config" -> 180
      [] cache_type = "remote_config"    -> 1800
      [] OTHER                           -> 300

\* A Python str of len ASCII characters without escapes; gz is the length of
\* base64(gzip(json.dumps(text))) for that text.
Str(text, len, gz) == [ kind |-> "str", text |-> text, len |-> len, gz |-> gz ]

\* 'a', 'b', 'a' * 2000 and 150000 characters of noise
CacheValues == { Str("a", 1, 32), Str("b", 1, 32), Str("a*2000", 2000, 48), Str("noise", 150000, 151524) }

NoValue == [ kind |-> "None" ]

\* len(json.dumps(value, default=str).encode('utf-8')): a text and its two quotes,
\* or the length a dict was built with
JsonLen(value) == IF value.kind = "str" THEN value.len + 2 ELSE value.json

_should_compress(value) == JsonLen(value) > 1024

\* {'_compressed': True, '_data': encoded}
_compress_value(value) ==
    [ kind |-> "dict", compressed |-> TRUE, data |-> Str(<<"gzip", value.text>>, value.gz, 0) ]

\* str: the encoded length; dict: keys and values plus 64, True counting as an int
_estimate_size(value) ==
    CASE value.kind = "str"        -> value.len
      [] value.kind = "cache_data" -> value.len
      [] OTHER                     -> (11 + 8) + (5 + value.data.len) + 64

\* CacheItem.is_expired
is_expired(item, now) == now - item.created_at > item.ttl

RECURSIVE SumSizes(_)
SumSizes(items) == IF items = << >> THEN 0 ELSE Head(items).size + SumSizes(Tail(items))

CacheIndex(cache, key) == { i \in 1..Len(cache) : cache[i].key = key }

DropAt(cache, i) == [ j \in 1..(Len(cache) - 1) |-> IF j < i THEN cache[j] ELSE cache[j + 1] ]

\* for key in expired_keys: pop, memory_usage -= item.size, evictions += 1
_cleanup_expired(c, now) ==
    LET expired == SelectSeq(c.cache, LAMBDA item : is_expired(item, now))
        kept    == SelectSeq(c.cache, LAMBDA item : ~is_expired(item, now))
    IN  [ c EXCEPT !.cache = kept, !.memory_usage = @ - SumSizes(expired),
                   !.evictions = @ + Len(expired) ]

\* adaptive_score(a) > adaptive_score(b), with age * size / 1024 / (frequency + 1)
\* compared by cross multiplication
ScoreAbove(a, b, now) ==
    ((now - a.last_accessed) * a.size) * (b.access_count + 1)
        > ((now - b.last_accessed) * b.size) * (a.access_count + 1)

\* strategy ADAPTIVE: max() keeps the first key of the highest score
_evict_one(c, now) ==
    IF c.cache = << >> THEN c
    ELSE LET best == { i \in 1..Len(c.cache) :
                         \A j \in 1..Len(c.cache) : ~ScoreAbove(c.cache[j], c.cache[i], now) }
             i    == Least(best)
         IN  [ c EXCEPT !.cache = DropAt(c.cache, i), !.memory_usage = @ - c.cache[i].size,
                        !.evictions = @ + 1 ]

RECURSIVE EvictWhileFull(_, _)
EvictWhileFull(c, now) ==
    IF Len(c.cache) >= memory_cache_size THEN EvictWhileFull(_evict_one(c, now), now) ELSE c

RECURSIVE EvictWhileHeavy(_, _, _)
EvictWhileHeavy(c, new_item_size, now) ==
    IF c.memory_usage + new_item_size > max_memory /\ c.cache # << >>
    THEN EvictWhileHeavy(_evict_one(c, now), new_item_size, now)
    ELSE c

_ensure_capacity(c, new_item_size, now) ==
    EvictWhileHeavy(EvictWhileFull(c, now), new_item_size, now)

\* self._cache[key] = item: an existing key keeps its place in the dict
Put(cache, item) ==
    IF CacheIndex(cache, item.key) = {} THEN Append(cache, item)
    ELSE [ cache EXCEPT ![Least(CacheIndex(cache, item.key))] = item ]

\* MemoryCache.set: self.stats.memory_usage += size, whatever was stored under the key
memory_set(c, key, value, ttl, now) ==
    LET size == _estimate_size(value)
        item == [ key |-> key, value |-> value, created_at |-> now, last_accessed |-> now,
                  access_count |-> 0, ttl |-> ttl, size |-> size ]
        room == _ensure_capacity(_cleanup_expired(c, now), size, now)
    IN  IF size * 10 > max_memory THEN [ ok |-> FALSE, c |-> c ]
        ELSE [ ok |-> TRUE,
               c  |-> [ room EXCEPT !.cache = Put(@, item), !.memory_usage = @ + size ] ]

\* MemoryCache.get: an expired item is deleted from the dict, and only from it
memory_get(c, key, now) ==
    IF CacheIndex(c.cache, key) = {}
    THEN [ found |-> FALSE, value |-> NoValue, c |-> [ c EXCEPT !.misses = @ + 1 ] ]
    ELSE LET i    == Least(CacheIndex(c.cache, key))
             item == c.cache[i]
         IN  IF is_expired(item, now)
             THEN [ found |-> FALSE, value |-> NoValue,
                    c |-> [ c EXCEPT !.cache = DropAt(@, i), !.misses = @ + 1, !.evictions = @ + 1 ] ]
             ELSE [ found |-> TRUE, value |-> item.value,
                    c |-> [ c EXCEPT !.cache[i].last_accessed = now, !.cache[i].access_count = @ + 1,
                                     !.hits = @ + 1 ] ]

\* MemoryCache.delete
memory_delete(c, key) ==
    IF CacheIndex(c.cache, key) = {} THEN [ ok |-> FALSE, c |-> c ]
    ELSE LET i == Least(CacheIndex(c.cache, key))
         IN  [ ok |-> TRUE,
               c  |-> [ c EXCEPT !.cache = DropAt(@, i), !.memory_usage = @ - c.cache[i].size ] ]

\* MemoryCache.clear
memory_clear(c) == [ c EXCEPT !.cache = << >>, !.memory_usage = 0 ]

Call(op, key, value, ok) == [ op |-> op, key |-> key, value |-> value, ok |-> ok ]

InitCache ==
    /\ args = << >>
    /\ result = Call("none", <<"", "">>, NoValue, FALSE)
    /\ pc = "idle"
    /\ store = [ cache |-> << >>, memory_usage |-> 0, hits |-> 0, misses |-> 0, evictions |-> 0 ]
    /\ log = << >>
    /\ clock = 0
    /\ RegistryIdle
    /\ RealityIdle

\* CacheManager.set(cache_type, key, value)
CacheSet ==
    /\ Len(log) < MaxCacheCalls
    /\ \E key \in CacheKeys, value \in CacheValues :
          LET stored == IF _should_compress(value) THEN _compress_value(value) ELSE value
              r      == memory_set(store, key, stored, cache_ttl(key[1]), clock)
          IN  /\ store' = r.c
              /\ result' = Call("set", key, value, r.ok)
              /\ log' = Append(log, Call("set", key, value, r.ok))
    /\ clock' = clock + 1
    /\ UNCHANGED <<args, pc, registryVars, realityVars>>

\* CacheManager.get(cache_type, key)
CacheGet ==
    /\ Len(log) < MaxCacheCalls
    /\ \E key \in CacheKeys :
          LET r == memory_get(store, key, clock)
          IN  /\ store' = r.c
              /\ result' = Call("get", key, r.value, r.found)
              /\ log' = Append(log, Call("get", key, r.value, r.found))
    /\ clock' = clock + 1
    /\ UNCHANGED <<args, pc, registryVars, realityVars>>

\* CacheManager.delete(cache_type, key)
CacheDelete ==
    /\ Len(log) < MaxCacheCalls
    /\ \E key \in CacheKeys :
          LET r == memory_delete(store, key)
          IN  /\ store' = r.c
              /\ result' = Call("delete", key, NoValue, r.ok)
              /\ log' = Append(log, Call("delete", key, NoValue, r.ok))
    /\ clock' = clock + 1
    /\ UNCHANGED <<args, pc, registryVars, realityVars>>

\* MemoryCache.clear()
CacheClear ==
    /\ Len(log) < MaxCacheCalls
    /\ store' = memory_clear(store)
    /\ result' = Call("clear", <<"", "">>, NoValue, TRUE)
    /\ log' = Append(log, Call("clear", <<"", "">>, NoValue, TRUE))
    /\ clock' = clock + 1
    /\ UNCHANGED <<args, pc, registryVars, realityVars>>

\* CacheCleanupTask._cleanup: self.cache_manager.memory_cache._cleanup_expired()
CacheCleanup ==
    /\ Len(log) < MaxCacheCalls
    /\ store' = _cleanup_expired(store, clock)
    /\ result' = Call("cleanup", <<"", "">>, NoValue, TRUE)
    /\ log' = Append(log, Call("cleanup", <<"", "">>, NoValue, TRUE))
    /\ clock' = clock + 1
    /\ UNCHANGED <<args, pc, registryVars, realityVars>>

\* time.time() moves on between two calls
CacheTick ==
    /\ clock \div TickSeconds < MaxTicks
    /\ clock' = clock + TickSeconds
    /\ UNCHANGED <<args, result, pc, store, log, registryVars, realityVars>>

NextCache == CacheSet \/ CacheGet \/ CacheDelete \/ CacheClear \/ CacheCleanup \/ CacheTick

SpecCache == InitCache /\ [][NextCache]_vars

\* The calls on key that came before the last call of the log.
Earlier(key) == { i \in 1..(Len(log) - 1) : log[i].key = key \/ log[i].op = "clear" }

\* C23: a get that finds an entry returns the value given to the latest set of
\* that key that returned true, and a get that directly follows a delete of its
\* key (no set of the key in between) returns none.
C23_GetReturnsWhatWasSet ==
    (result.op = "get" /\ Len(log) > 0) =>
        LET sets    == { i \in Earlier(result.key) : log[i].op = "set" /\ log[i].ok }
            deletes == { i \in Earlier(result.key) : log[i].op = "delete" }
        IN  /\ result.ok => (sets # {} /\ result.value = log[Greatest(sets)].value)
            /\ (deletes # {} /\ \A i \in sets : i < Greatest(deletes)) => ~result.ok

\* C27: stats.memory_usage is the sum of the sizes of the entries stored.
C27_MemoryUsageIsSumOfSizes == store.memory_usage = SumSizes(store.cache)

\* ---------------------------------------------------------------------------
\* Circuit breaker and error recovery (compatibility/error_recovery.py)
\* ---------------------------------------------------------------------------

\* Calls begun on one breaker, and jumps of the wall clock, that are explored.
MaxBreakerCalls == 3
MaxBreakerTicks == 2

\* The clock counts half seconds, so that retry_delay = 0.5 is a whole number.
UnitsPerSecond == 2
\* recovery_timeout: float = 60.0
recovery_timeout == 60 * UnitsPerSecond
\* while attempts < 10
MaxAttempts == 10
\* Half seconds the wall clock jumps by when time passes between two calls.
BreakerTick == 60

\* Exception classes and their base classes, as isinstance sees them.
Bases(cls) ==
    CASE cls = "ConnectionError" -> {"ConnectionError", "OSError", "Exception"}
      [] cls = "TimeoutError"    -> {"TimeoutError", "OSError", "Exception"}
      [] cls = "ValueError"      -> {"ValueError", "Exception"}
      [] cls = "MemoryError"     -> {"MemoryError", "Exception"}
      [] OTHER                   -> {"Exception"}

\* An exception: its class and the words of str(error).lower()
Error(cls, words) == [ cls |-> cls, words |-> words ]

\* What the protected function raises in the model.
FuncErrors ==
    { Error("ConnectionError", <<"refused">>), Error("Exception", <<"http", "503">>),
      Error("ValueError", <<"bad", "line">>), Error("Exception", <<"boom">>) }

\* Operation names, in pieces: 'fetch', 'generate_config', 'dns' + '_lookup'
Operations == { <<"fetch">>, <<"generate_config">>, <<"dns", "_lookup">> }

\* Exception(f"Operation '{operation}' is circuit-broken")
CircuitBroken(operation) == Error("Exception", <<"operation">> \o operation \o <<"is", "circuit-broken">>)

\* ErrorRecoveryManager._is_retryable_http_error
_is_retryable_http_error(error) ==
    \E i \in 1..Len(error.words) :
        error.words[i] \in {"502", "503", "504", "408", "429", "500", "timeout", "connection", "network", "dns"}

RecoveryRule(error_types, strategy, max_retries, retry_delay, condition_func) ==
    [ error_types |-> error_types, strategy |-> strategy, max_retries |-> max_retries,
      retry_delay |-> retry_delay, condition_func |-> condition_func ]

\* ErrorRecoveryManager._initialize_recovery_rules; retry_delay in half seconds
recovery_rules ==
    << RecoveryRule({"ConnectionError", "TimeoutError", "OSError"}, "retry", 3, 1 * UnitsPerSecond, "none"),
       RecoveryRule({"Exception"}, "retry", 2, UnitsPerSecond \div 2, "retryable_http"),
       RecoveryRule({"ValueError", "KeyError", "TypeError"}, "degrade", 3, 1 * UnitsPerSecond, "none"),
       RecoveryRule({"MemoryError"}, "degrade", 3, 1 * UnitsPerSecond, "none"),
       RecoveryRule({"Exception"}, "fallback", 3, 1 * UnitsPerSecond, "generate_config"),
       RecoveryRule({"Exception"}, "ignore", 3, 1 * UnitsPerSecond, "low") >>

NoRule == RecoveryRule({}, "none", 0, 0, "none")

Condition(rule, error, operation, severity) ==
    CASE rule.condition_func = "retryable_http"  -> _is_retryable_http_error(error)
      [] rule.condition_func = "generate_config" -> \E i \in 1..Len(operation) : operation[i] = "generate_config"
      [] rule.condition_func = "low"             -> severity = "low"
      [] OTHER                                   -> TRUE

\* ErrorRecoveryManager._find_recovery_rule: the first rule of the list that applies
_find_recovery_rule(error, operation, severity) ==
    LET fit == { i \in 1..Len(recovery_rules) :
                   /\ recovery_rules[i].error_types \cap Bases(error.cls) # {}
                   /\ Condition(recovery_rules[i], error, operation, severity) }
    IN  IF fit = {} THEN NoRule ELSE recovery_rules[Least(fit)]

RECURSIVE Power(_, _)
Power(b, n) == IF n = 0 THEN 1 ELSE b * Power(b, n - 1)

\* rule.retry_delay * (rule.backoff_factor ** (context.attempts - 1)), backoff_factor 2.0
RetryDelay(rule, attempts) == rule.retry_delay * Power(2, attempts - 1)

\* CircuitBreaker._should_attempt_reset; last_failure_time -1 stands for None
_should_attempt_reset(cb, now) ==
    IF cb.last_failure_time = -1 THEN TRUE
    ELSE now - cb.last_failure_time >= recovery_timeout

\* CircuitBreaker._on_success
_on_success(cb) ==
    IF cb.state = "HALF_OPEN" THEN [ cb EXCEPT !.state = "CLOSED", !.failure_count = 0 ] ELSE cb

\* if self.failure_count > self.failure_threshold
_on_failure_past_threshold(cb, now, failure_threshold) ==
    LET counted == [ cb EXCEPT !.failure_count = @ + 1, !.last_failure_time = now ]
    IN  IF counted.failure_count > failure_threshold THEN [ counted EXCEPT !.state = "OPEN" ] ELSE counted

\* CircuitBreaker._on_failure
_on_failure(cb, now, failure_threshold) ==
    LET counted == [ cb EXCEPT !.failure_count = @ + 1, !.last_failure_time = now ]
    IN  IF counted.failure_count >= failure_threshold THEN [ counted EXCEPT !.state = "OPEN" ] ELSE counted

\* ErrorRecoveryManager._update_error_stats, for the one operation of the run
_update_error_stats(st, error) ==
    [ st EXCEPT !.total_errors = @ + 1, !.by_type[error.cls] = @ + 1, !.by_operation = @ + 1 ]

\* the retry rule goes on whatever the number of attempts
_handle_retry_strategy_goes_on(rule, attempts) == "should_retry"

\* ErrorRecoveryManager._handle_retry_strategy
_handle_retry_strategy(rule, attempts) ==
    IF attempts >= rule.max_retries THEN "should_stop" ELSE "should_retry"

NoError == Error("None", << >>)

FailureThresholds == {1, 5}

Outcome(via, state_before, due, admitted, func_ok, failed, call, attempts, error, value) ==
    [ via |-> via, state_before |-> state_before, due |-> due, admitted |-> admitted,
      func_ok |-> func_ok, failed |-> failed, call |-> call, attempts |-> attempts, error |-> error,
      value |-> value ]

\* recovery_timeout has elapsed since the protected function last failed
Due(now) == log.func_failed_at # -1 /\ now - log.func_failed_at >= recovery_timeout

InitBreaker ==
    /\ args \in [ operation : Operations, severity : {"low", "medium"},
                  failure_threshold : FailureThresholds, expected_exception : {"Exception", "ValueError"} ]
    /\ args.severity = "low" => args.operation = <<"fetch">>
    /\ result = Outcome("none", "CLOSED", FALSE, FALSE, FALSE, FALSE, "none", 0, NoError, "None")
    /\ pc = "idle"
    /\ store = [ state |-> "CLOSED", failure_count |-> 0, last_failure_time |-> -1,
                 total_errors |-> 0, recovered_errors |-> 0, failed_recoveries |-> 0,
                 by_type |-> [ cls \in {"ConnectionError", "ValueError", "Exception"} |-> 0 ],
                 by_operation |-> 0 ]
    /\ log = [ calls |-> 0, ticks |-> 0, attempts |-> 0, last_error |-> NoError, entered_with |-> 0,
               retry_cap |-> 0, only_retry |-> TRUE, func_failed_at |-> -1 ]
    /\ clock = 0
    /\ RegistryIdle
    /\ RealityIdle

\* A call of the function wrapped by CircuitBreaker.__call__
WrapperCall ==
    /\ log.calls < MaxBreakerCalls
    /\ \E raised \in FuncErrors \cup { NoError } :
          LET rejected == store.state = "OPEN" /\ ~_should_attempt_reset(store, clock)
              trial    == IF store.state = "OPEN" THEN [ store EXCEPT !.state = "HALF_OPEN" ] ELSE store
              expected == args.expected_exception \in Bases(raised.cls)
              after    == CASE rejected         -> store
                            [] raised = NoError -> _on_success(trial)
                            [] expected         -> _on_failure(trial, clock, args.failure_threshold)
                            [] OTHER            -> trial
          IN  /\ store' = after
              /\ result' = Outcome("wrapper", store.state, Due(clock), ~rejected,
                                   ~rejected /\ raised = NoError,
                                   ~rejected /\ raised # NoError /\ expected,
                                   IF rejected \/ raised # NoError THEN "raised" ELSE "returned", 1,
                                   IF rejected THEN Error("Exception", <<"circuit", "breaker", "is", "open">>)
                                   ELSE raised,
                                   IF rejected \/ raised # NoError THEN "None" ELSE "result")
              /\ log' = [ log EXCEPT !.calls = @ + 1,
                                     !.func_failed_at = IF ~rejected /\ raised # NoError THEN clock ELSE @ ]
    /\ UNCHANGED <<args, pc, clock, registryVars, realityVars>>

\* execute_with_recovery is entered: attempts = 0, last_error = None
BeginRecovery ==
    /\ pc = "idle"
    /\ log.calls < MaxBreakerCalls
    /\ pc' = "attempt"
    /\ log' = [ log EXCEPT !.calls = @ + 1, !.attempts = 0, !.last_error = NoError,
                           !.entered_with = store.failed_recoveries, !.retry_cap = 0, !.only_retry = TRUE ]
    /\ result' = Outcome("manager", store.state, FALSE, FALSE, FALSE, FALSE, "running", 0, NoError, "None")
    /\ UNCHANGED <<args, store, clock, registryVars, realityVars>>

\* One turn of the loop of execute_with_recovery, up to its return, raise or continue
Attempt ==
    /\ pc = "attempt"
    /\ \E raised \in FuncErrors \cup { NoError } :
          LET attempts == log.attempts + 1
              rejected == store.state = "OPEN" /\ ~_should_attempt_reset(store, clock)
              error    == IF rejected THEN CircuitBroken(args.operation) ELSE raised
              counted  == _on_failure(_update_error_stats(store, error), clock, args.failure_threshold)
              rule     == _find_recovery_rule(error, args.operation, args.severity)
              verdict  == CASE rule.strategy = "retry" -> _handle_retry_strategy(rule, attempts)
                            [] rule.strategy \in {"fallback", "degrade", "ignore"} -> "success"
                            [] OTHER -> "should_stop"
              goes_on  == verdict = "should_retry" /\ attempts < MaxAttempts
              seen     == [ log EXCEPT !.attempts = attempts, !.last_error = error,
                                       !.retry_cap = IF rule.strategy = "retry" /\ rule.max_retries > @
                                                     THEN rule.max_retries ELSE @,
                                       !.only_retry = @ /\ rule.strategy = "retry",
                                       !.func_failed_at = IF rejected THEN @ ELSE clock ]
          IN  IF error = NoError
              THEN /\ store' = [ _on_success(store) EXCEPT
                                   !.recovered_errors = IF attempts > 1 THEN @ + 1 ELSE @ ]
                   /\ log' = [ log EXCEPT !.attempts = attempts ]
                   /\ pc' = "idle"
                   /\ clock' = clock
                   /\ result' = Outcome("manager", store.state, Due(clock), TRUE, TRUE, FALSE,
                                        "returned", attempts, NoError, "result")
              ELSE /\ store' = IF verdict = "success" \/ goes_on THEN counted
                               ELSE [ counted EXCEPT !.failed_recoveries = @ + 1 ]
                   /\ log' = seen
                   /\ pc' = IF goes_on THEN "attempt" ELSE "idle"
                   /\ clock' = IF verdict = "should_retry" THEN clock + RetryDelay(rule, attempts) ELSE clock
                   /\ result' = Outcome("manager", store.state, Due(clock), ~rejected, FALSE, TRUE,
                                        CASE goes_on -> "running"
                                          [] verdict = "success" -> "returned"
                                          [] OTHER -> "raised",
                                        attempts, error,
                                        IF rule.strategy \in {"degrade", "fallback"} THEN "result" ELSE "None")
    /\ UNCHANGED <<args, registryVars, realityVars>>

\* ErrorRecoveryManager.reset_circuit_breaker(operation)
ResetBreaker ==
    /\ log.calls < MaxBreakerCalls
    /\ store' = [ store EXCEPT !.state = "CLOSED", !.failure_count = 0, !.last_failure_time = -1 ]
    /\ log' = [ log EXCEPT !.calls = @ + 1 ]
    /\ result' = [ result EXCEPT !.via = "reset", !.failed = FALSE ]
    /\ UNCHANGED <<args, pc, clock, registryVars, realityVars>>

\* time.time() moves on between two calls, or while a call awaits
BreakerTick1 ==
    /\ log.ticks < MaxBreakerTicks
    /\ clock' = clock + BreakerTick
    /\ log' = [ log EXCEPT !.ticks = @ + 1 ]
    /\ UNCHANGED <<args, result, pc, store, registryVars, realityVars>>

NextBreaker == WrapperCall \/ BeginRecovery \/ Attempt \/ ResetBreaker \/ BreakerTick1

SpecBreaker == InitBreaker /\ [][NextBreaker]_vars

\* C24: the breaker starts CLOSED, is CLOSED whenever fewer than failure_threshold
\* failures are counted, and is OPEN when a call has just recorded a failure that
\* brought the count to failure_threshold or beyond.
C24_OpenAtThreshold ==
    /\ result.via = "none" => (store.state = "CLOSED" /\ store.failure_count = 0)
    /\ store.failure_count < args.failure_threshold => store.state = "CLOSED"
    /\ (result.failed /\ store.failure_count >= args.failure_threshold) => store.state = "OPEN"

\* Five failures were recorded on a breaker with the default threshold.
C24_Witness ==
    /\ args.failure_threshold = 5
    /\ store.failure_count = 5
    /\ store.state = "OPEN"
    /\ result.failed

\* C26: a call made while the breaker is OPEN and recovery_timeout after the
\* protected function last failed is admitted, and if the function then succeeds
\* the breaker is CLOSED with failure count 0, through the wrapper and through
\* execute_with_recovery alike.
C26_TrialAfterTimeout ==
    (result.via \in {"wrapper", "manager"} /\ result.state_before = "OPEN" /\ result.due) =>
        /\ result.admitted
        /\ result.func_ok => (store.state = "CLOSED" /\ store.failure_count = 0)

\* C30: execute_with_recovery makes at most 10 attempts, and at most max_retries
\* attempts while every error met a retry rule; when it ends it has either
\* returned, with failed_recoveries as it found it, or raised the last error with
\* failed_recoveries one higher.
C30_BoundedAttempts ==
    /\ log.attempts <= MaxAttempts
    /\ (log.attempts > 0 /\ log.only_retry /\ log.last_error # NoError) => log.attempts <= log.retry_cap
    /\ (result.via = "manager" /\ result.call \in {"running", "returned"}) =>
           store.failed_recoveries = log.entered_with
    /\ (result.via = "manager" /\ result.call = "raised") =>
           /\ store.failed_recoveries = log.entered_with + 1
           /\ result.error = log.last_error
           /\ result.error # NoError

\* A call gave up after the third attempt under the rule for network errors.
C30_Witness ==
    /\ result.via = "manager"
    /\ result.call = "raised"
    /\ result.attempts = 3
    /\ log.only_retry
    /\ store.failed_recoveries = log.entered_with + 1

\* ---------------------------------------------------------------------------
\* Batch processing (performance/optimizer.py, BatchProcessor)
\* ---------------------------------------------------------------------------

\* Concurrent callers of add_to_batch, and ticks of the clock, that are explored.
MaxCallers == 2
MaxBatchClock == 2

Callers == 1..MaxCallers
\* The task a caller creates (_process_batch or _timeout_handler), and the task
\* _process_batch creates for the caller's item.
HelperOf(c) == MaxCallers + c
ItemTaskOf(c) == (2 * MaxCallers) + c
BatchTasks == 1..(3 * MaxCallers)

\* asyncio.Lock: free and nobody queued means acquire() returns at once
LockFree(st) == st.lock = 0 /\ st.waiters = << >>
Granted(st, task) == st.lock = 0 /\ st.waiters # << >> /\ Head(st.waiters) = task
Unqueued(waiters, task) == SelectSeq(waiters, LAMBDA w : w # task)

InitBatch ==
    /\ args \in [ batch_size : 1..MaxCallers, max_wait_time : {1} ]
    /\ result = << >>
    /\ pc = [ task \in BatchTasks |-> IF task \in Callers THEN "idle" ELSE "none" ]
    /\ store = [ batch_queue |-> << >>, lock |-> 0, waiters |-> << >>,
                 future |-> [ c \in Callers |-> "none" ] ]
    /\ log = [ created_at |-> [ c \in Callers |-> 0 ], batch |-> [ c \in Callers |-> {} ] ]
    /\ clock = 0
    /\ RegistryIdle
    /\ RealityIdle

\* add_to_batch under the lock: append the item, create the task, await the future
\* with the lock still held
add_to_batch(c) ==
    LET queue == Append(store.batch_queue, [ item |-> c, added_at |-> clock ])
    IN  /\ store' = [ store EXCEPT !.batch_queue = queue, !.lock = c, !.waiters = Unqueued(@, c),
                                   !.future[c] = "pending" ]
        /\ pc' = [ pc EXCEPT ![c] = "await",
                             ![HelperOf(c)] = IF Len(queue) >= args.batch_size THEN "process" ELSE "sleep" ]
        /\ log' = [ log EXCEPT !.created_at[c] = clock ]

\* A caller enters add_to_batch: async with self.batch_lock
StartCall ==
    \E c \in Callers :
        /\ pc[c] = "idle"
        /\ IF LockFree(store) THEN add_to_batch(c)
           ELSE /\ store' = [ store EXCEPT !.waiters = Append(@, c) ]
                /\ pc' = [ pc EXCEPT ![c] = "lock" ]
                /\ log' = log
        /\ UNCHANGED <<args, result, clock, registryVars, realityVars>>

\* A queued caller is given the lock
CallerAcquire ==
    \E c \in Callers :
        /\ pc[c] = "lock"
        /\ Granted(store, c)
        /\ add_to_batch(c)
        /\ UNCHANGED <<args, result, clock, registryVars, realityVars>>

\* return await future: the caller wakes when its future is done or cancelled
\* and leaves the async with block, which releases the lock
CallerWakes ==
    \E c \in Callers :
        /\ pc[c] = "await"
        /\ store.future[c] # "pending"
        /\ pc' = [ pc EXCEPT ![c] = CASE store.future[c] = "result"    -> "returned"
                                      [] store.future[c] = "exception" -> "raised"
                                      [] OTHER                         -> "cancelled" ]
        /\ store' = [ store EXCEPT !.lock = 0 ]
        /\ UNCHANGED <<args, result, log, clock, registryVars, realityVars>>

\* The caller's task is cancelled from outside (asyncio.wait_for, a closed request)
CancelCall ==
    \E c \in Callers :
        /\ pc[c] \in {"lock", "await"}
        /\ store.future[c] \in {"none", "pending"}
        /\ IF pc[c] = "await"
           THEN /\ store' = [ store EXCEPT !.future[c] = "cancelled" ]
                /\ pc' = pc
           ELSE /\ store' = [ store EXCEPT !.waiters = Unqueued(@, c) ]
                /\ pc' = [ pc EXCEPT ![c] = "cancelled" ]
        /\ UNCHANGED <<args, result, log, clock, registryVars, realityVars>>

\* _process_batch under the lock: take the queue, clear it, release the lock and
\* create one task per item
process_batch_takes(h, c) ==
    IF store.batch_queue = << >>
    THEN /\ store' = [ store EXCEPT !.waiters = Unqueued(@, h) ]
         /\ pc' = [ pc EXCEPT ![h] = "done" ]
         /\ log' = log
    ELSE LET items == { store.batch_queue[i].item : i \in 1..Len(store.batch_queue) }
         IN  /\ store' = [ store EXCEPT !.batch_queue = << >>, !.waiters = Unqueued(@, h) ]
             /\ pc' = [ task \in BatchTasks |->
                          IF task = h THEN "gather"
                          ELSE IF \E i \in items : task = ItemTaskOf(i) THEN "run"
                          ELSE pc[task] ]
             /\ log' = [ log EXCEPT !.batch[c] = items ]

\* The task of _process_batch starts: async with self.batch_lock
ProcessBatchStarts ==
    \E c \in Callers :
        /\ pc[HelperOf(c)] = "process"
        /\ IF LockFree(store) THEN process_batch_takes(HelperOf(c), c)
           ELSE /\ store' = [ store EXCEPT !.waiters = Append(@, HelperOf(c)) ]
                /\ pc' = [ pc EXCEPT ![HelperOf(c)] = "process_lock" ]
                /\ log' = log
        /\ UNCHANGED <<args, result, clock, registryVars, realityVars>>

\* The queued task of _process_batch is given the lock
ProcessBatchAcquires ==
    \E c \in Callers :
        /\ pc[HelperOf(c)] = "process_lock"
        /\ Granted(store, HelperOf(c))
        /\ process_batch_takes(HelperOf(c), c)
        /\ UNCHANGED <<args, result, clock, registryVars, realityVars>>

\* _process_single_item: await the processor, then set_result or set_exception;
\* on a cancelled future both raise InvalidStateError and the future stays as it is
ProcessSingleItem ==
    \E c \in Callers, outcome \in {"result", "exception"} :
        /\ pc[ItemTaskOf(c)] = "run"
        /\ IF store.future[c] = "pending"
           THEN /\ store' = [ store EXCEPT !.future[c] = outcome ]
                /\ pc' = [ pc EXCEPT ![ItemTaskOf(c)] = "done" ]
           ELSE /\ store' = store
                /\ pc' = [ pc EXCEPT ![ItemTaskOf(c)] = "failed" ]
        /\ UNCHANGED <<args, result, log, clock, registryVars, realityVars>>

\* await asyncio.gather(*tasks, return_exceptions=True) is over
GatherReturns ==
    \E c \in Callers :
        /\ pc[HelperOf(c)] = "gather"
        /\ \A i \in log.batch[c] : pc[ItemTaskOf(i)] \in {"done", "failed"}
        /\ pc' = [ pc EXCEPT ![HelperOf(c)] = "done" ]
        /\ UNCHANGED <<args, result, store, log, clock, registryVars, realityVars>>

\* _timeout_handler under the lock: with an item that has waited max_wait_time it
\* awaits self._process_batch(), which asks for the lock the handler holds
timeout_handler_checks(h) ==
    LET waited == { clock - store.batch_queue[i].added_at : i \in 1..Len(store.batch_queue) }
    IN  IF store.batch_queue # << >> /\ Greatest(waited) >= args.max_wait_time
        THEN /\ store' = [ store EXCEPT !.lock = h, !.waiters = Unqueued(@, h) ]
             /\ pc' = [ pc EXCEPT ![h] = "process_inside" ]
        ELSE /\ store' = [ store EXCEPT !.waiters = Unqueued(@, h) ]
             /\ pc' = [ pc EXCEPT ![h] = "done" ]

\* await asyncio.sleep(self.max_wait_time) is over: async with self.batch_lock
TimeoutHandlerWakes ==
    \E c \in Callers :
        /\ pc[HelperOf(c)] = "sleep"
        /\ clock - log.created_at[c] >= args.max_wait_time
        /\ IF LockFree(store) THEN timeout_handler_checks(HelperOf(c))
           ELSE /\ store' = [ store EXCEPT !.waiters = Append(@, HelperOf(c)) ]
                /\ pc' = [ pc EXCEPT ![HelperOf(c)] = "timeout_lock" ]
        /\ UNCHANGED <<args, result, log, clock, registryVars, realityVars>>

\* The queued _timeout_handler is given the lock
TimeoutHandlerAcquires ==
    \E c \in Callers :
        /\ pc[HelperOf(c)] = "timeout_lock"
        /\ Granted(store, HelperOf(c))
        /\ timeout_handler_checks(HelperOf(c))
        /\ UNCHANGED <<args, result, log, clock, registryVars, realityVars>>

\* time.time() moves on by max_wait_time
BatchTick ==
    /\ clock < MaxBatchClock
    /\ clock' = clock + 1
    /\ UNCHANGED <<args, result, pc, store, log, registryVars, realityVars>>

NextBatch ==
    \/ StartCall \/ CallerAcquire \/ CallerWakes \/ CancelCall
    \/ ProcessBatchStarts \/ ProcessBatchAcquires \/ ProcessSingleItem \/ GatherReturns
    \/ TimeoutHandlerWakes \/ TimeoutHandlerAcquires \/ BatchTick

SpecBatch == InitBatch /\ [][NextBatch]_vars

\* The event loop runs every task that can run, and time passes; starting a call
\* and cancelling one are up to the callers.
SpecBatchLive ==
    /\ SpecBatch
    /\ WF_vars(CallerAcquire) /\ WF_vars(CallerWakes)
    /\ WF_vars(ProcessBatchStarts) /\ WF_vars(ProcessBatchAcquires)
    /\ WF_vars(ProcessSingleItem) /\ WF_vars(GatherReturns)
    /\ WF_vars(TimeoutHandlerWakes) /\ WF_vars(TimeoutHandlerAcquires)
    /\ WF_vars(BatchTick)

\* C25: every call of add_to_batch that has been entered ends: it returns its
\* result, raises what the processor raised, or is cancelled by its caller.
C25_EveryCallReturns ==
    \A c \in Callers : (pc[c] \in {"lock", "await"}) ~> (pc[c] \in {"returned", "raised", "cancelled"})

\* ---------------------------------------------------------------------------
\* Download links (api/converter.py: convert_subscription, download_config)
\* ---------------------------------------------------------------------------

\* Conversions and downloads explored.
MaxConversions == 3
MaxDownloads == 2

\* request.url and the options of a request that shape the configuration
DownloadUrls == { <<"https://a/sub">>, <<"https://b/sub">> }
DownloadOptions == { "include=HK", "include=US" }
DownloadRequests == [ url : DownloadUrls, options : DownloadOptions ]

\* hashlib.md5(str(request.url).encode()).hexdigest()[:12]
config_id(request) == <<"md5", request.url>>

\* result.config of the converter: YAML of 2000 characters, as large as the fixed
\* part of a configuration with its proxy groups makes it
GeneratedConfig(request) == [ url |-> request.url, options |-> request.options, len |-> 2000 ]

\* cache_data: config, timestamp, nodes_count, filename (None); len as
\* _estimate_size counts it, json as json.dumps does, gz as _compress_value
\* leaves it
cache_data(config) ==
    [ kind |-> "cache_data", text |-> <<config.url, config.options>>, config |-> config,
      len  |-> (6 + config.len) + (9 + 28) + (11 + 8) + (8 + 4) + 64,
      json |-> config.len + 93, gz |-> 156 ]

Response(status, content) == [ status |-> status, content |-> content ]

NoContent == [ url |-> << >>, options |-> "", len |-> 0 ]

\* download_config(config_id): 404 without an entry, and cached_data['config']
\* raises KeyError on the dict _compress_value made
download_config(found, cached_data) ==
    CASE ~found                          -> Response(404, NoContent)
      [] cached_data.kind = "cache_data" -> Response(200, cached_data.config)
      [] OTHER                           -> Response(500, NoContent)

InitDownload ==
    /\ args = << >>
    /\ result = [ op |-> "none", config_id |-> <<"md5", << >> >>, response |-> Response(404, NoContent) ]
    /\ pc = {}
    /\ store = [ cache |-> << >>, memory_usage |-> 0, hits |-> 0, misses |-> 0, evictions |-> 0 ]
    /\ log = [ issued |-> {}, conversions |-> 0, downloads |-> 0, ticks |-> 0 ]
    /\ clock = 0
    /\ RegistryIdle
    /\ RealityIdle

\* POST /convert is received: result = await converter.convert_subscription(request)
ConvertRequested ==
    /\ log.conversions < MaxConversions
    /\ \E request \in DownloadRequests :
          /\ request \notin pc
          /\ pc' = pc \cup { request }
    /\ log' = [ log EXCEPT !.conversions = @ + 1 ]
    /\ UNCHANGED <<args, result, store, clock, registryVars, realityVars>>

\* The converter has answered: on success the configuration is cached under the
\* config_id and the download URL is returned
ConvertAnswered ==
    /\ \E request \in pc, success \in BOOLEAN :
          LET config == GeneratedConfig(request)
              value  == cache_data(config)
              stored == IF _should_compress(value) THEN _compress_value(value) ELSE value
              r      == memory_set(store, <<"generated_config", config_id(request)>>, stored,
                                   cache_ttl("generated_config"), clock)
          IN  /\ pc' = pc \ { request }
              /\ store' = IF success THEN r.c ELSE store
              /\ log' = IF success
                        THEN [ log EXCEPT !.issued = @ \cup { [ config_id |-> config_id(request),
                                                                  config |-> config ] } ]
                        ELSE log
              /\ result' = [ op |-> "convert", config_id |-> config_id(request),
                             response |-> Response(IF success THEN 200 ELSE 500, NoContent) ]
    /\ clock' = clock + 1
    /\ UNCHANGED <<args, registryVars, realityVars>>

\* GET /sub/{config_id}
DownloadConfig ==
    /\ log.downloads < MaxDownloads
    /\ \E request \in DownloadRequests :
          LET r == memory_get(store, <<"generated_config", config_id(request)>>, clock)
          IN  /\ store' = r.c
              /\ result' = [ op |-> "download", config_id |-> config_id(request),
                             response |-> download_config(r.found, r.value) ]
    /\ log' = [ log EXCEPT !.downloads = @ + 1 ]
    /\ clock' = clock + 1
    /\ UNCHANGED <<args, pc, registryVars, realityVars>>

\* time.time() moves on between two requests
DownloadTick ==
    /\ log.ticks < MaxTicks
    /\ clock' = clock + TickSeconds
    /\ log' = [ log EXCEPT !.ticks = @ + 1 ]
    /\ UNCHANGED <<args, result, pc, store, registryVars, realityVars>>

NextDownload == ConvertRequested \/ ConvertAnswered \/ DownloadConfig \/ DownloadTick

SpecDownload == InitDownload /\ [][NextDownload]_vars

====
